---- MODULE Spec2Model ----
(***************************************************************************)
(* Ellipsoid-method cutting-plane library (ellalgo): the EllCalc kernel,   *)
(* the Ell search space and the driver loops of cutting_plane.py.          *)
(*                                                                         *)
(* Floating-point numbers are modelled as fixed-point numbers: the integer *)
(* v stands for the real v / SCALE, and every multiplication, division and *)
(* square root rounds down to that grid.  numpy arrays live in a heap (a   *)
(* sequence of vectors addressed by index), so that aliasing and in-place  *)
(* updates (`self._xc -= ...`) behave as in the source.  An Optional value *)
(* is a sequence of length 0 (None) or 1.                                  *)
(***************************************************************************)
EXTENDS Integers, Sequences, FiniteSets, TLC

(* ------------------------------ bounds -------------------------------- *)
\* number of fractional bits of the fixed-point grid
FracBits == 8
\* largest options.max_iters explored
MaxIters == 3
\* update_* calls made on an ellipsoid that is driven by hand
MaxUpdates == 2

(* ------------------------- fixed-point numbers ------------------------ *)
SCALE == 2 ^ FracBits
Fx(n) == n * SCALE
FMul(a, b) == (a * b) \div SCALE
FDiv(a, b) == (a * SCALE) \div b

RECURSIVE ISqrtB(_, _, _)
\* largest r with r*r <= n, by bisection; lo*lo <= n < hi*hi throughout
ISqrtB(n, lo, hi) ==
    IF hi - lo <= 1 THEN lo
    ELSE LET mid == (lo + hi) \div 2
         IN IF mid * mid <= n THEN ISqrtB(n, mid, hi) ELSE ISqrtB(n, lo, mid)
\* math.sqrt on the grid (argument >= 0)
FSqrt(a) == ISqrtB(a * SCALE, 0, 46341)

(* ----------------------------- vectors -------------------------------- *)
RECURSIVE SumSeq(_)
SumSeq(s) == IF s = <<>> THEN 0 ELSE Head(s) + SumSeq(Tail(s))
Dot(a, b) == SumSeq([i \in 1..Len(a) |-> FMul(a[i], b[i])])
MatVec(m, v) == [i \in 1..Len(m) |-> Dot(m[i], v)]
Eye(n) == [i \in 1..n |-> [j \in 1..n |-> IF i = j THEN Fx(1) ELSE 0]]
Diag(val) == [i \in 1..Len(val) |-> [j \in 1..Len(val) |-> IF i = j THEN val[i] ELSE 0]]

(* ------------------------------ EllCalc ------------------------------- *)
\* a result of a calc_* method: (status, rho, sigma, delta)
Res(st, rho, sigma, delta) == [status |-> st, rho |-> rho, sigma |-> sigma, delta |-> delta]
\* an exception leaving a calc_* method, as a pseudo status
Raise(exc) == Res(exc, 0, 0, 0)
Statuses == {"Success", "NoSoln", "NoEffect"}

\* EllCalc.__init__
EllCalc(n) ==
    LET n_f == Fx(n)
        cst0 == FDiv(Fx(1), n_f + Fx(1))
    IN [n_f |-> n_f,
        half_n |-> FDiv(n_f, Fx(2)),
        cst0 |-> cst0,
        cst1 |-> FDiv(FMul(n_f, n_f), FMul(n_f, n_f) - Fx(1)),
        cst2 |-> FMul(Fx(2), cst0),
        cst3 |-> FMul(n_f, cst0),
        use_parallel_cut |-> TRUE]

\* faulty variant of calc_dc_core: sigma is not divided by tau + beta
calc_dc_core_NoDiv(h, beta, tau, gamma) ==
    IF tau + beta = 0 \/ tau = 0 THEN Raise("ZeroDivisionError")
    ELSE LET r == FDiv(beta, tau)
         IN Res("Success",
                FMul(h.cst0, gamma),
                FMul(h.cst2, gamma),
                FMul(h.cst1, Fx(1) - FMul(r, r)))
calc_dc_core(h, beta, tau, gamma) ==
    IF tau + beta = 0 \/ tau = 0 THEN Raise("ZeroDivisionError")
    ELSE LET r == FDiv(beta, tau)
         IN Res("Success",
                FMul(h.cst0, gamma),
                FDiv(FMul(h.cst2, gamma), tau + beta),
                FMul(h.cst1, Fx(1) - FMul(r, r)))

calc_dc(h, beta, tsq) ==
    IF beta < 0 THEN Raise("AssertionError")
    ELSE IF tsq < FMul(beta, beta) THEN Res("NoSoln", 0, 0, 0)
    ELSE LET tau == FSqrt(tsq)
         IN calc_dc_core(h, beta, tau, tau + FMul(h.n_f, beta))

calc_cc(h, tsq) ==
    IF tsq < 0 THEN Raise("ValueError")
    ELSE Res("Success", FMul(h.cst0, FSqrt(tsq)), h.cst2, h.cst1)

calc_ll_core(h, b0, b1, b1sq, b0b1, tsq) ==
    LET b0sq == FMul(b0, b0)
        t0 == tsq - b0sq
        t1 == tsq - b1sq
        hn == FMul(h.half_n, b1sq - b0sq)
        arg == FMul(t0, t1) + FMul(hn, hn)
        bsumsq == b0sq + FMul(Fx(2), b0b1) + b1sq
    IN IF arg < 0 THEN Raise("ValueError")
       ELSE IF bsumsq = 0 \/ tsq = 0 THEN Raise("ZeroDivisionError")
       ELSE LET xi == FSqrt(arg)
                sigma == h.cst3 + FDiv(FMul(h.cst2, tsq + b0b1 - xi), bsumsq)
            IN Res("Success",
                   FDiv(FMul(sigma, b0 + b1), Fx(2)),
                   sigma,
                   FDiv(FMul(h.cst1, FDiv(t0 + t1, Fx(2)) + FDiv(xi, h.n_f)), tsq))

\* faulty variant of calc_ll: an upper cut outside the ellipsoid is not
\* handed to calc_dc
calc_ll_NoFallback(h, b0, b1, tsq) ==
    IF b1 < b0 THEN Res("NoSoln", 0, 0, 0)
    ELSE calc_ll_core(h, b0, b1, FMul(b1, b1), FMul(b0, b1), tsq)
calc_ll(h, b0, b1, tsq) ==
    IF b1 < b0 THEN Res("NoSoln", 0, 0, 0)
    ELSE LET b1sq == FMul(b1, b1)
         IN IF b1 > 0 /\ tsq < b1sq THEN calc_dc(h, b0, tsq)
            ELSE calc_ll_core(h, b0, b1, b1sq, FMul(b0, b1), tsq)

calc_ll_cc(h, b1, tsq) ==
    IF b1 < 0 THEN Res("NoSoln", 0, 0, 0)
    ELSE LET b1sq == FMul(b1, b1)
         IN IF tsq < b1sq \/ ~h.use_parallel_cut THEN calc_cc(h, tsq)
            ELSE IF tsq = 0 THEN Raise("ZeroDivisionError")
            ELSE LET a1sq == FDiv(b1sq, tsq)
                     hn == FMul(h.half_n, a1sq)
                     arg == Fx(1) - a1sq + FMul(hn, hn)
                 IN IF arg < 0 THEN Raise("ValueError")
                    ELSE IF a1sq = 0 THEN Raise("ZeroDivisionError")
                    ELSE LET xi == FSqrt(arg)
                             sigma == h.cst3 + FDiv(FMul(h.cst2, Fx(1) - xi), a1sq)
                         IN Res("Success",
                                FDiv(FMul(sigma, b1), Fx(2)),
                                sigma,
                                FMul(h.cst1, Fx(1) - FDiv(a1sq, Fx(2)) + FDiv(xi, h.n_f)))

\* faulty variant of calc_dc_q: a cut that cannot bite is not set aside
calc_dc_q_NoEffectOff(h, beta, tsq) ==
    IF tsq < 0 THEN Raise("ValueError")
    ELSE LET tau == FSqrt(tsq)
             gamma == tau + FMul(h.n_f, beta)
         IN IF tau < beta THEN Res("NoSoln", 0, 0, 0)
            ELSE calc_dc_core(h, beta, tau, gamma)
\* faulty variant of calc_dc_q: gamma without the factor n
calc_dc_q_GammaNoN(h, beta, tsq) ==
    IF tsq < 0 THEN Raise("ValueError")
    ELSE LET tau == FSqrt(tsq)
             gamma == tau + beta
         IN IF tau < beta THEN Res("NoSoln", 0, 0, 0)
            ELSE IF gamma <= 0 THEN Res("NoEffect", 0, 0, 0)
            ELSE calc_dc_core(h, beta, tau, gamma)
calc_dc_q(h, beta, tsq) ==
    IF tsq < 0 THEN Raise("ValueError")
    ELSE LET tau == FSqrt(tsq)
             gamma == tau + FMul(h.n_f, beta)
         IN IF tau < beta THEN Res("NoSoln", 0, 0, 0)
            ELSE IF gamma <= 0 THEN Res("NoEffect", 0, 0, 0)
            ELSE calc_dc_core(h, beta, tau, gamma)

\* faulty variant of calc_ll_q: the order of beta0 and beta1 is not checked
calc_ll_q_NoOrder(h, b0, b1, tsq) ==
    LET b1sq == FMul(b1, b1)
        b0b1 == FMul(b0, b1)
    IN IF b1 > 0 /\ tsq < b1sq THEN calc_dc_q(h, b0, tsq)
       ELSE IF FMul(h.n_f, b0b1) < -tsq THEN Res("NoEffect", 0, 0, 0)
       ELSE calc_ll_core(h, b0, b1, b1sq, b0b1, tsq)
calc_ll_q(h, b0, b1, tsq) ==
    IF b1 < b0 THEN Res("NoSoln", 0, 0, 0)
    ELSE LET b1sq == FMul(b1, b1)
             b0b1 == FMul(b0, b1)
         IN IF b1 > 0 /\ tsq < b1sq THEN calc_dc_q(h, b0, tsq)
            ELSE IF FMul(h.n_f, b0b1) < -tsq THEN Res("NoEffect", 0, 0, 0)
            ELSE calc_ll_core(h, b0, b1, b1sq, b0b1, tsq)

\* beta is [scalar |-> BOOLEAN, v |-> sequence]: a number (scalar, v = <<b>>)
\* or a list of numbers v
calc_single_or_ll(h, beta, tsq) ==
    IF beta.scalar THEN calc_dc(h, beta.v[1], tsq)
    ELSE IF Len(beta.v) < 2 \/ ~h.use_parallel_cut THEN calc_dc(h, beta.v[1], tsq)
    ELSE calc_ll(h, beta.v[1], beta.v[2], tsq)

\* faulty variant of calc_single_or_ll_cc: use_parallel_cut is not looked at
calc_single_or_ll_cc_NoFlag(h, beta, tsq) ==
    IF beta.scalar \/ Len(beta.v) < 2 THEN calc_cc(h, tsq)
    ELSE calc_ll_cc([h EXCEPT !.use_parallel_cut = TRUE], beta.v[2], tsq)
calc_single_or_ll_cc(h, beta, tsq) ==
    IF beta.scalar \/ Len(beta.v) < 2 \/ ~h.use_parallel_cut THEN calc_cc(h, tsq)
    ELSE calc_ll_cc(h, beta.v[2], tsq)

calc_single_or_ll_q(h, beta, tsq) ==
    IF beta.scalar THEN calc_dc_q(h, beta.v[1], tsq)
    ELSE IF Len(beta.v) < 2 \/ ~h.use_parallel_cut THEN calc_dc_q(h, beta.v[1], tsq)
    ELSE calc_ll_q(h, beta.v[1], beta.v[2], tsq)

(* ------------------------------- Ell ---------------------------------- *)
Scalar(b) == [scalar |-> TRUE, v |-> <<b>>]
List(v) == [scalar |-> FALSE, v |-> v]

\* Ell.__init__(val, xc): xc is the address of the caller's array, kept as is
Ell(val, hp, xc) ==
    LET ndim == Len(hp[xc])
    IN [xc |-> xc,
        tsq |-> 0,
        kappa |-> IF val.scalar THEN val.v[1] ELSE Fx(1),
        mq |-> IF val.scalar THEN Eye(ndim) ELSE Diag(val.v),
        helper |-> EllCalc(ndim),
        no_defer_trick |-> FALSE]

\* the cut_strategy callable handed to _update_core
cut_strategy(name, h, beta, tsq) ==
    CASE name = "calc_single_or_ll" -> calc_single_or_ll(h, beta, tsq)
      [] name = "calc_single_or_ll_cc" -> calc_single_or_ll_cc(h, beta, tsq)
      [] name = "calc_single_or_ll_q" -> calc_single_or_ll_q(h, beta, tsq)

\* Ell._update_core, lines 136-146: what the result r of the cut strategy
\* does to the ellipsoid and to the array of its center
update_apply(s, hp, grad_t, omega, tsq, r) ==
    LET n == Len(grad_t)
        s1 == [s EXCEPT !.tsq = tsq]
    IN IF r.status # "Success" THEN [status |-> r.status, space |-> s1, heap |-> hp]
       ELSE IF omega = 0 THEN [status |-> "ZeroDivisionError", space |-> s1, heap |-> hp]
       ELSE LET ro == FDiv(r.rho, omega)
                so == FDiv(r.sigma, omega)
                kappa1 == FMul(s.kappa, r.delta)
            IN [status |-> "Success",
                space |-> [s1 EXCEPT
                    !.mq = [i \in 1..n |-> [j \in 1..n |->
                              IF s.no_defer_trick
                              THEN FMul(s.mq[i][j] - FMul(so, FMul(grad_t[i], grad_t[j])),
                                        kappa1)
                              ELSE s.mq[i][j] - FMul(so, FMul(grad_t[i], grad_t[j]))]],
                    !.kappa = IF s.no_defer_trick THEN Fx(1) ELSE kappa1],
                heap |-> [hp EXCEPT
                    ![s.xc] = [i \in 1..n |-> hp[s.xc][i] - FMul(ro, grad_t[i])]]]

\* Ell._update_core, lines 129-134: grad_t, omega, tsq and the cut strategy
update_core(s, hp, cut, name) ==
    LET grad_t == MatVec(s.mq, cut.grad)
        omega == Dot(cut.grad, grad_t)
        tsq == FMul(s.kappa, omega)
    IN update_apply(s, hp, grad_t, omega, tsq,
                    cut_strategy(name, s.helper, cut.beta, tsq))

update_dc(s, hp, cut) == update_core(s, hp, cut, "calc_single_or_ll")
update_cc(s, hp, cut) == update_core(s, hp, cut, "calc_single_or_ll_cc")
update_q(s, hp, cut) == update_core(s, hp, cut, "calc_single_or_ll_q")

\* the update method a driver calls, by the kind it chose
update(kind, s, hp, cut) ==
    CASE kind = "dc" -> update_dc(s, hp, cut)
      [] kind = "cc" -> update_cc(s, hp, cut)
      [] kind = "q" -> update_q(s, hp, cut)

(* ----------------------------- EllStable ------------------------------ *)
\* EllStable.__init__(val, xc): _mq holds L below the diagonal, inv(D) on it
EllStable(val, hp, xc) ==
    LET ndim == Len(hp[xc])
    IN [xc |-> xc,
        tsq |-> 0,
        n |-> ndim,
        kappa |-> IF val.scalar THEN val.v[1] ELSE Fx(1),
        mq |-> IF val.scalar THEN Eye(ndim) ELSE Diag(val.v),
        helper |-> EllCalc(ndim),
        no_defer_trick |-> FALSE]

\* faulty variant of invL: the products are kept below the diagonal, over L
RECURSIVE invL_OverL(_, _, _, _)
invL_OverL(mq, invLg, j, i) ==
    IF j > Len(invLg) - 1 THEN [mq |-> mq, invLg |-> invLg]
    ELSE IF i > Len(invLg) THEN invL_OverL(mq, invLg, j + 1, j + 2)
    ELSE invL_OverL([mq EXCEPT ![i][j] = FMul(mq[i][j], invLg[j])],
                    [invLg EXCEPT ![i] = @ - FMul(mq[i][j], invLg[j])], j, i + 1)
\* inv(L)*g, the loop at (j, i); the products are kept above the diagonal
RECURSIVE invL(_, _, _, _)
invL(mq, invLg, j, i) ==
    IF j > Len(invLg) - 1 THEN [mq |-> mq, invLg |-> invLg]
    ELSE IF i > Len(invLg) THEN invL(mq, invLg, j + 1, j + 2)
    ELSE invL([mq EXCEPT ![j][i] = FMul(mq[i][j], invLg[j])],
              [invLg EXCEPT ![i] = @ - FMul(mq[i][j], invLg[j])], j, i + 1)

\* inv(D)*inv(L)*g
invD(mq, invLg) == [i \in 1..Len(invLg) |-> FMul(invLg[i], mq[i][i])]

\* inv(L')*inv(D)*inv(L)*g, the loop at (i, j), i counting down
RECURSIVE invLt(_, _, _, _)
invLt(mq, g_t, i, j) ==
    IF i < 2 THEN g_t
    ELSE IF j > Len(g_t) THEN invLt(mq, g_t, i - 1, i - 1)
    ELSE invLt(mq, [g_t EXCEPT ![i - 1] = @ - FMul(mq[j][i - 1], g_t[j])], i, j + 1)

\* the inner loop of the rank-one update, at k
RECURSIVE rank_one_column(_, _, _, _, _)
rank_one_column(mq, v, beta2, j, k) ==
    IF k > Len(v) THEN [mq |-> mq, v |-> v]
    ELSE rank_one_column([mq EXCEPT ![k][j] = @ + FMul(beta2, v[k] - mq[j][k])],
                         [v EXCEPT ![k] = @ - mq[j][k]], beta2, j, k + 1)

\* one round of the outer loop of the rank-one update
rank_one_step(mq, v, oldt, newt, temp, j) ==
    rank_one_column([mq EXCEPT ![j][j] = FMul(@, FDiv(oldt, newt))],
                    v, FDiv(temp, newt), j, j + 1)

\* the rank-one update, the outer loop at j; a zero newt leaves no numbers
RECURSIVE rank_one(_, _, _, _, _)
rank_one(mq, v, oldt, invDinvLg, j) ==
    IF j > Len(v) THEN [nan |-> FALSE, mq |-> mq]
    ELSE IF oldt + FMul(v[j], invDinvLg[j]) = 0 THEN [nan |-> TRUE, mq |-> mq]
    ELSE rank_one(rank_one_step(mq, v, oldt, oldt + FMul(v[j], invDinvLg[j]),
                                invDinvLg[j], j).mq,
                  rank_one_step(mq, v, oldt, oldt + FMul(v[j], invDinvLg[j]),
                                invDinvLg[j], j).v,
                  oldt + FMul(v[j], invDinvLg[j]), invDinvLg, j + 1)

\* EllStable._update_core, lines 159-180: mu, the rank-one update of the
\* factors, kappa and the no_defer_trick; hp1 holds the updated center
stable_finish(s1, hp1, g, invDinvLg, omega, r) ==
    IF r.sigma = Fx(1)
    THEN [status |-> "ZeroDivisionError", space |-> s1, heap |-> hp1]
    ELSE IF FDiv(r.sigma, Fx(1) - r.sigma) = 0
    THEN [status |-> "nan", space |-> s1, heap |-> hp1]
    ELSE LET mu == FDiv(r.sigma, Fx(1) - r.sigma)
             ro == rank_one(s1.mq, g, FDiv(omega, mu), invDinvLg, 1)
             kappa1 == FMul(s1.kappa, r.delta)
         IN IF ro.nan THEN [status |-> "nan", space |-> s1, heap |-> hp1]
            ELSE [status |-> "Success",
                  space |-> [s1 EXCEPT
                      !.mq = IF s1.no_defer_trick
                             THEN [i \in 1..s1.n |-> [j \in 1..s1.n |->
                                       FMul(ro.mq[i][j], kappa1)]]
                             ELSE ro.mq,
                      !.kappa = IF s1.no_defer_trick THEN Fx(1) ELSE kappa1],
                  heap |-> hp1]

\* EllStable._update_core, lines 144-155: the early return and the center
stable_apply(s1, hp, g, f, invDinvLg, omega, r) ==
    IF r.status # "Success" THEN [status |-> r.status, space |-> s1, heap |-> hp]
    ELSE IF omega = 0 THEN [status |-> "ZeroDivisionError", space |-> s1, heap |-> hp]
    ELSE stable_finish(s1,
                       [hp EXCEPT ![s1.xc] = [i \in 1..s1.n |->
                           @[i] - FMul(FDiv(r.rho, omega),
                                       invLt(f.mq, invDinvLg, s1.n, s1.n)[i])]],
                       g, invDinvLg, omega, r)

\* EllStable._update_core, lines 114-137: the solves, omega, tsq, the strategy
stable_solve(s, hp, cut, name, f) ==
    stable_apply([s EXCEPT !.mq = f.mq,
                           !.tsq = FMul(s.kappa, Dot(f.invLg, invD(f.mq, f.invLg)))],
                 hp, cut.grad, f, invD(f.mq, f.invLg),
                 Dot(f.invLg, invD(f.mq, f.invLg)),
                 cut_strategy(name, s.helper, cut.beta,
                              FMul(s.kappa, Dot(f.invLg, invD(f.mq, f.invLg)))))

stable_update_core(s, hp, cut, name) ==
    stable_solve(s, hp, cut, name, invL(s.mq, cut.grad, 1, 2))

stable_update_dc(s, hp, cut) == stable_update_core(s, hp, cut, "calc_single_or_ll")
stable_update_cc(s, hp, cut) == stable_update_core(s, hp, cut, "calc_single_or_ll_cc")
stable_update_q(s, hp, cut) == stable_update_core(s, hp, cut, "calc_single_or_ll_q")

\* the update method of EllStable, by its kind
stable_update(kind, s, hp, cut) ==
    CASE kind = "dc" -> stable_update_dc(s, hp, cut)
      [] kind = "cc" -> stable_update_cc(s, hp, cut)
      [] kind = "q" -> stable_update_q(s, hp, cut)

\* faulty variant of CopyArray: the array itself instead of a copy
CopyArray_Alias(hp, a) == [addr |-> a, heap |-> hp]
\* copy.copy of an array: a new array with the same entries
CopyArray(hp, a) == [addr |-> Len(hp) + 1, heap |-> Append(hp, hp[a])]
\* faulty variant of DeepCopy: the "copy" is the search space itself
DeepCopy_Alias(s, hp) == [space |-> s, heap |-> hp]
\* copy.deepcopy of a search space: nothing is shared with the original
DeepCopy(s, hp) ==
    LET c == CopyArray(hp, s.xc)
    IN [space |-> [s EXCEPT !.xc = c.addr], heap |-> c.heap]
\* faulty variant of set_xc: the new center is dropped
set_xc_Dropped(s, xc) == s
\* set_xc: the search space keeps the caller's array
set_xc(s, xc) == [s EXCEPT !.xc = xc]

(* --------------------------- driver inputs ---------------------------- *)
None == <<>>
Some(x) == <<x>>
Cut(g, beta) == [grad |-> g, beta |-> beta]

\* gradients and initial center of a two-dimensional problem
G1 == <<Fx(1), 0>>
G2 == <<Fx(1), Fx(1)>>
Xinit == <<0, 0>>
\* the initial best-so-far value handed to the optim drivers
Tea0 == Fx(0)
\* Ell(4.0, xinit)
Val0 == Scalar(Fx(4))

\* the answers of assess_feas: feasible, or a deep or parallel cut (beta >= 0)
FeasResponses ==
    {None} \cup {Some(Cut(g, b)) : g \in {G1, G2},
                                  b \in {Scalar(Fx(1)), Scalar(Fx(3)), List(<<Fx(1), Fx(2)>>)}}
\* the answers of assess_optim: (cut, t1)
OptimResponses ==
    {[cut |-> Cut(g, b), t1 |-> None] : g \in {G1, G2}, b \in {Scalar(Fx(1)), Scalar(Fx(3))}}
    \cup {[cut |-> Cut(g, Scalar(0)), t1 |-> Some(t)] : g \in {G1, G2}, t \in {Fx(1), Fx(2)}}
    \cup {[cut |-> Cut(G1, List(<<0, Fx(1)>>)), t1 |-> Some(Fx(2))]}
\* rounded candidates x_q of the discrete oracles
XQ1 == <<Fx(1), 0>>
XQ2 == <<0, -Fx(1)>>
\* the cuts of the discrete oracles, with more_alt
QCuts ==
    {[cut |-> Cut(G1, Scalar(Fx(1))), more_alt |-> FALSE],
     [cut |-> Cut(G2, Scalar(Fx(1))), more_alt |-> TRUE],
     [cut |-> Cut(G1, Scalar(Fx(3))), more_alt |-> TRUE],
     [cut |-> Cut(G1, Scalar(-Fx(2))), more_alt |-> FALSE],
     [cut |-> Cut(G1, Scalar(-Fx(2))), more_alt |-> TRUE],
     [cut |-> Cut(G2, List(<<-Fx(1), Fx(2)>>)), more_alt |-> TRUE]}
\* the answers of assess_feas_q: (cut, x_q, more_alt)
FeasQResponses ==
    {[cut |-> None, x_q |-> x, more_alt |-> FALSE] : x \in {None, Some(XQ1)}}
    \cup {[cut |-> Some(c.cut), x_q |-> Some(XQ2), more_alt |-> c.more_alt] : c \in QCuts}
\* the answers of assess_optim_q: (cut, x_q, t1, more_alt)
OptimQResponses ==
    {[cut |-> c.cut, x_q |-> xt.x_q, t1 |-> xt.t1, more_alt |-> c.more_alt] :
        c \in QCuts,
        xt \in {[x_q |-> XQ1, t1 |-> None], [x_q |-> XQ1, t1 |-> Some(Fx(2))],
                [x_q |-> XQ2, t1 |-> Some(Fx(1))]}}
\* the answers of the oracle inside a BSearchAdaptor
AdaptorResponses ==
    {None, Some(Cut(G1, Scalar(Fx(1)))), Some(Cut(G2, Scalar(Fx(3))))}

\* options.tol: the smallest positive number of the grid, or 5.0
Tols == {1, Fx(5)}
Options == [max_iters : 0..MaxIters, tol : Tols]
AdaptorOptions == {[max_iters |-> MaxIters - 1, tol |-> 1], [max_iters |-> 1, tol |-> Fx(5)]}

\* a Python number: an int or a float
Int_(n) == [ty |-> "int", v |-> Fx(n)]
Float_(v) == [ty |-> "float", v |-> v]
\* the intervals (lower, upper) given to bsearch
Intervals ==
    {<<Int_(0), Int_(3)>>, <<Int_(-3), Int_(2)>>, <<Float_(0), Float_(Fx(16))>>,
     <<Float_(Fx(1) \div 2), Int_(4)>>, <<Int_(0), Float_(Fx(3))>>}

(* ------------------------------ drivers ------------------------------- *)
VARIABLES
    driver,     \* the driver function that was called
    pc,         \* "loop": in the driver's loop; "probe": inside assess_bs;
                \* "done": returned; "raised": left by an exception
    options,    \* the driver's Options: [max_iters, tol]
    niter,      \* the loop variable
    space,      \* the search space handed to the driver / held by the adaptor
    heap,       \* the arrays: address -> vector
    tea,        \* best-so-far value (optim drivers), probe value (bsearch)
    x_best,     \* Optional: address (optim) or vector (optim_q)
    retry,      \* the retry flag of the discrete drivers
    lower,      \* bsearch
    upper,      \* bsearch
    T,          \* bsearch: type(upper) at entry
    adaptor,    \* the BSearchAdaptor used as bsearch's omega, if any
    ret,        \* Optional: the tuple returned
    log,        \* history: one record per oracle call of the current driver call
    bslog,      \* history: one record per assess_bs call of bsearch
    calc,       \* a direct call of an EllCalc method: arguments and result
    twin,       \* ellipsoids of both classes that are fed the same cuts
    seg         \* an ell1d that is fed cuts

vars == <<driver, pc, options, niter, space, heap, tea, x_best, retry,
          lower, upper, T, adaptor, ret, log, bslog, calc, twin, seg>>
\* the variables of the drivers
drivervars == <<driver, pc, options, niter, space, heap, tea, x_best, retry,
                lower, upper, T, adaptor, ret, log, bslog>>

\* what a search space is, by value
View(s, hp) == [xc |-> hp[s.xc], mq |-> s.mq, kappa |-> s.kappa, tsq |-> s.tsq]

\* faulty variant of RangeDone: one pass too many
RangeDone_OneMore(k, opt) == k > opt.max_iters
\* `for niter in range(options.max_iters)` has run out
RangeDone(k, opt) == k >= opt.max_iters

\* the outcome of one pass of a loop body
Pass(pc1, ret1, sp, hp, rec) ==
    [pc |-> pc1, ret |-> ret1, space |-> sp, heap |-> hp, rec |-> rec]
\* a history record of one oracle call
Rec(xc, t, rt, resp, kind, status, tsq, xb) ==
    [xc |-> xc, tea |-> t, retry |-> rt, resp |-> resp, kind |-> kind,
     status |-> status, tsq |-> tsq, x_best |-> xb]

\* faulty variant of FeasStop: the tolerance on tsq is not looked at
FeasStop_NoTol(status, tsq, tol) == status # "Success"
\* cutting_plane_feas, line 230
FeasStop(status, tsq, tol) == status # "Success" \/ tsq < tol

\* cutting_plane_feas, lines 230-231: after update_dc returned u
FeasAfter(u, xc, k, opt, cut) ==
    IF u.status \notin Statuses
    THEN Pass("raised", None, u.space, u.heap,
              Rec(xc, 0, FALSE, cut, "dc", u.status, u.space.tsq, None))
    ELSE IF FeasStop(u.status, u.space.tsq, opt.tol)
    THEN Pass("done", Some([x |-> None, niter |-> k]), u.space, u.heap,
              Rec(xc, 0, FALSE, cut, "dc", u.status, u.space.tsq, None))
    ELSE Pass("loop", None, u.space, u.heap,
              Rec(xc, 0, FALSE, cut, "dc", u.status, u.space.tsq, None))

\* cutting_plane_feas: one pass of the loop body with the oracle answering cut
FeasBody(sp, hp, k, opt, cut) ==
    IF cut = None
    THEN Pass("done", Some([x |-> Some(sp.xc), niter |-> k]), sp, hp,
              Rec(hp[sp.xc], 0, FALSE, cut, "none", "none", sp.tsq, None))
    ELSE FeasAfter(update_dc(sp, hp, cut[1]), hp[sp.xc], k, opt, cut)

cutting_plane_feas ==
    /\ driver = "feas" /\ pc = "loop"
    /\ IF RangeDone(niter, options)
       THEN /\ pc' = "done"
            /\ ret' = Some([x |-> None, niter |-> options.max_iters])
            /\ UNCHANGED <<niter, space, heap, log>>
       ELSE \E cut \in FeasResponses :
              \E b \in {FeasBody(space, heap, niter, options, cut)} :
                 /\ pc' = b.pc /\ ret' = b.ret /\ space' = b.space /\ heap' = b.heap
                 /\ niter' = IF b.pc = "loop" THEN niter + 1 ELSE niter
                 /\ log' = Append(log, b.rec)
    /\ UNCHANGED <<driver, options, tea, x_best, retry, lower, upper, T, adaptor, bslog, calc, twin, seg>>

\* faulty variant of OptimKind: a deep cut whatever the oracle reported
OptimKind_AlwaysDeep(t1) == "dc"
\* cutting_plane_optim, lines 254-259: the update applied
OptimKind(t1) == IF t1 # None THEN "cc" ELSE "dc"

\* cutting_plane_optim, lines 260-261: after the update returned u
OptimAfter(u, xc, t, t2, xb2, k, opt, resp, kind) ==
    [tea |-> t2, x_best |-> xb2,
     pass |-> IF u.status \notin Statuses
              THEN Pass("raised", None, u.space, u.heap,
                        Rec(xc, t, FALSE, resp, kind, u.status, u.space.tsq, xb2))
              ELSE IF FeasStop(u.status, u.space.tsq, opt.tol)
              THEN Pass("done", Some([x |-> xb2, t |-> t2, niter |-> k]), u.space, u.heap,
                        Rec(xc, t, FALSE, resp, kind, u.status, u.space.tsq, xb2))
              ELSE Pass("loop", None, u.space, u.heap,
                        Rec(xc, t, FALSE, resp, kind, u.status, u.space.tsq, xb2))]

\* cutting_plane_optim: one pass of the loop body; resp = (cut, t1)
OptimBody(sp, hp, t, xb, k, opt, resp) ==
    LET hit == resp.t1 # None
        c == IF hit THEN CopyArray(hp, sp.xc) ELSE [addr |-> sp.xc, heap |-> hp]
    IN OptimAfter(update(OptimKind(resp.t1), sp, c.heap, resp.cut), hp[sp.xc], t,
                  IF hit THEN resp.t1[1] ELSE t,
                  IF hit THEN Some(c.addr) ELSE xb,
                  k, opt, resp, OptimKind(resp.t1))

cutting_plane_optim ==
    /\ driver = "optim" /\ pc = "loop"
    /\ IF RangeDone(niter, options)
       THEN /\ pc' = "done"
            /\ ret' = Some([x |-> x_best, t |-> tea, niter |-> options.max_iters])
            /\ UNCHANGED <<niter, space, heap, tea, x_best, log>>
       ELSE \E resp \in OptimResponses :
              \E o \in {OptimBody(space, heap, tea, x_best, niter, options, resp)} :
              \E b \in {o.pass} :
                 /\ pc' = b.pc /\ ret' = b.ret /\ space' = b.space /\ heap' = b.heap
                 /\ tea' = o.tea /\ x_best' = o.x_best
                 /\ niter' = IF b.pc = "loop" THEN niter + 1 ELSE niter
                 /\ log' = Append(log, b.rec)
    /\ UNCHANGED <<driver, options, retry, lower, upper, T, adaptor, bslog, calc, twin, seg>>

\* faulty variant of QOutcome: Success does not reset the retry flag
QOutcome_StickyRetry(status, more_alt, rt) ==
    CASE status = "Success" -> [stop |-> FALSE, retry |-> rt]
      [] status = "NoSoln" -> [stop |-> TRUE, retry |-> rt]
      [] status = "NoEffect" -> IF ~more_alt THEN [stop |-> TRUE, retry |-> rt]
                                ELSE [stop |-> FALSE, retry |-> TRUE]
      [] OTHER -> [stop |-> FALSE, retry |-> rt]
\* faulty variant of QOutcome: NoEffect always asks for another cut
QOutcome_AlwaysRetry(status, more_alt, rt) ==
    CASE status = "Success" -> [stop |-> FALSE, retry |-> FALSE]
      [] status = "NoSoln" -> [stop |-> TRUE, retry |-> rt]
      [] status = "NoEffect" -> [stop |-> FALSE, retry |-> TRUE]
      [] OTHER -> [stop |-> FALSE, retry |-> rt]
\* the discrete drivers, lines 285-292 and 323-330: what the status of
\* update_q decides
QOutcome(status, more_alt, rt) ==
    CASE status = "Success" -> [stop |-> FALSE, retry |-> FALSE]
      [] status = "NoSoln" -> [stop |-> TRUE, retry |-> rt]
      [] status = "NoEffect" -> IF ~more_alt THEN [stop |-> TRUE, retry |-> rt]
                                ELSE [stop |-> FALSE, retry |-> TRUE]
      [] OTHER -> [stop |-> FALSE, retry |-> rt]

\* cutting_plane_feas_q, lines 285-294: after update_q returned u
FeasQAfter(u, xc, rt, k, opt, resp) ==
    LET q == QOutcome(u.status, resp.more_alt, rt)
    IN [retry |-> q.retry,
        pass |-> IF u.status \notin Statuses
                 THEN Pass("raised", None, u.space, u.heap,
                           Rec(xc, 0, rt, resp, "q", u.status, u.space.tsq, None))
                 ELSE IF q.stop \/ u.space.tsq < opt.tol
                 THEN Pass("done", Some([x |-> None, niter |-> k]), u.space, u.heap,
                           Rec(xc, 0, rt, resp, "q", u.status, u.space.tsq, None))
                 ELSE Pass("loop", None, u.space, u.heap,
                           Rec(xc, 0, rt, resp, "q", u.status, u.space.tsq, None))]

\* cutting_plane_feas_q: one pass of the loop body; resp = (cut, x_q, more_alt)
FeasQBody(sp, hp, rt, k, opt, resp) ==
    IF resp.cut = None
    THEN [retry |-> rt,
          pass |-> Pass("done", Some([x |-> resp.x_q, niter |-> k]), sp, hp,
                        Rec(hp[sp.xc], 0, rt, resp, "none", "none", sp.tsq, None))]
    ELSE FeasQAfter(update_q(sp, hp, resp.cut[1]), hp[sp.xc], rt, k, opt, resp)

cutting_plane_feas_q ==
    /\ driver = "feas_q" /\ pc = "loop"
    /\ IF RangeDone(niter, options)
       THEN /\ pc' = "done"
            /\ ret' = Some([x |-> None, niter |-> options.max_iters])
            /\ UNCHANGED <<niter, space, heap, retry, log>>
       ELSE \E resp \in FeasQResponses :
              \E o \in {FeasQBody(space, heap, retry, niter, options, resp)} :
              \E b \in {o.pass} :
                 /\ pc' = b.pc /\ ret' = b.ret /\ space' = b.space /\ heap' = b.heap
                 /\ retry' = o.retry
                 /\ niter' = IF b.pc = "loop" THEN niter + 1 ELSE niter
                 /\ log' = Append(log, b.rec)
    /\ UNCHANGED <<driver, options, tea, x_best, lower, upper, T, adaptor, bslog, calc, twin, seg>>

\* faulty variant of OptimQKind: the central/deep split of cutting_plane_optim
OptimQKind_Split(t1) == IF t1 # None THEN "cc" ELSE "q"
\* cutting_plane_optim_q, line 322: the update applied
OptimQKind(t1) == "q"

\* cutting_plane_optim_q, lines 323-332: after the update returned u
OptimQAfter(u, xc, t, t2, xb2, rt, k, opt, resp, kind) ==
    LET q == QOutcome(u.status, resp.more_alt, rt)
    IN [tea |-> t2, x_best |-> xb2, retry |-> q.retry,
        pass |-> IF u.status \notin Statuses
                 THEN Pass("raised", None, u.space, u.heap,
                           Rec(xc, t, rt, resp, kind, u.status, u.space.tsq, xb2))
                 ELSE IF q.stop \/ u.space.tsq < opt.tol
                 THEN Pass("done", Some([x |-> xb2, t |-> t2, niter |-> k]),
                           u.space, u.heap,
                           Rec(xc, t, rt, resp, kind, u.status, u.space.tsq, xb2))
                 ELSE Pass("loop", None, u.space, u.heap,
                           Rec(xc, t, rt, resp, kind, u.status, u.space.tsq, xb2))]

\* cutting_plane_optim_q: one pass of the loop body;
\* resp = (cut, x_q, t1, more_alt)
OptimQBody(sp, hp, t, xb, rt, k, opt, resp) ==
    LET hit == resp.t1 # None
    IN OptimQAfter(update(OptimQKind(resp.t1), sp, hp, resp.cut), hp[sp.xc], t,
                   IF hit THEN resp.t1[1] ELSE t,
                   IF hit THEN Some(resp.x_q) ELSE xb,
                   rt, k, opt, resp, OptimQKind(resp.t1))

cutting_plane_optim_q ==
    /\ driver = "optim_q" /\ pc = "loop"
    /\ IF RangeDone(niter, options)
       THEN /\ pc' = "done"
            /\ ret' = Some([x |-> x_best, t |-> tea, niter |-> options.max_iters])
            /\ UNCHANGED <<niter, space, heap, tea, x_best, retry, log>>
       ELSE \E resp \in OptimQResponses :
              \E o \in {OptimQBody(space, heap, tea, x_best, retry, niter, options, resp)} :
              \E b \in {o.pass} :
                 /\ pc' = b.pc /\ ret' = b.ret /\ space' = b.space /\ heap' = b.heap
                 /\ tea' = o.tea /\ x_best' = o.x_best /\ retry' = o.retry
                 /\ niter' = IF b.pc = "loop" THEN niter + 1 ELSE niter
                 /\ log' = Append(log, b.rec)
    /\ UNCHANGED <<driver, options, lower, upper, T, adaptor, bslog, calc, twin, seg>>

(* ------------------------------ bsearch ------------------------------- *)
\* (upper - lower) / 2: Python's true division gives a float
Half(u, l) == Float_((u.v - l.v) \div 2)
\* a + b of two numbers: an int only when both are
Plus(a, b) == [ty |-> IF a.ty = "int" /\ b.ty = "int" THEN "int" ELSE "float",
               v |-> a.v + b.v]
\* T(x): int(x) truncates toward zero, float(x) keeps the value
Cast(ty, x) ==
    IF ty = "int"
    THEN [ty |-> "int",
          v |-> IF x.v >= 0 THEN (x.v \div SCALE) * SCALE
                ELSE -(((-x.v) \div SCALE) * SCALE)]
    ELSE [ty |-> "float", v |-> x.v]
\* faulty variant of Probe: the midpoint is not cast to type(upper)
Probe_NoCast(ty, lo, tau) == Plus(lo, tau)
\* line 358: the probe
Probe(ty, lo, tau) == Cast(ty, Plus(lo, tau))
\* faulty variant of Narrow: upper follows the probe whatever the answer
Narrow_UpperAlways(lo, up, t, ans) == [lower |-> lo, upper |-> t]
\* faulty variant of Narrow: the two branches swapped
Narrow_Swapped(lo, up, t, ans) == IF ans THEN [lower |-> t, upper |-> up]
                                  ELSE [lower |-> lo, upper |-> t]
\* lines 359-362: the new (lower, upper)
Narrow(lo, up, t, ans) == IF ans THEN [lower |-> lo, upper |-> t]
                          ELSE [lower |-> t, upper |-> up]

\* omega_tea: the parameter of the adaptor's oracle, set by omega.update(tea);
\* work, niter: the copy and the loop variable of the running
\* cutting_plane_feas; before: history, the adaptor's space at entry
NoAdaptor == [used |-> FALSE, options |-> [max_iters |-> 0, tol |-> 1],
              omega_tea |-> None, work |-> None, niter |-> 0, before |-> None]
\* BSearchAdaptor.__init__
BSearchAdaptor(opt) == [NoAdaptor EXCEPT !.used = TRUE, !.options = opt]

BsRec(t, ans, lo, up, before, after, work, x_feas, calls) ==
    [tea |-> t, ans |-> ans, lower |-> lo, upper |-> up, before |-> before,
     after |-> after, work |-> work, x_feas |-> x_feas, calls |-> calls]

\* one pass of the loop of bsearch; with a BSearchAdaptor as omega the pass
\* enters assess_bs (lines 400-401) and is completed by assess_bs below
bsearch ==
    /\ driver = "bsearch" /\ pc = "loop"
    /\ \E tau \in {Half(upper, lower)} : \E t \in {Probe(T, lower, tau)} :
          IF RangeDone(niter, options)
          THEN /\ pc' = "done"
               /\ ret' = Some([x |-> upper, niter |-> options.max_iters])
               /\ UNCHANGED <<niter, space, heap, tea, lower, upper, adaptor, log, bslog>>
          ELSE IF tau.v < options.tol
          THEN /\ pc' = "done"
               /\ ret' = Some([x |-> upper, niter |-> niter])
               /\ UNCHANGED <<niter, space, heap, tea, lower, upper, adaptor, log, bslog>>
          ELSE IF ~adaptor.used
          THEN \E ans \in BOOLEAN : \E nw \in {Narrow(lower, upper, t, ans)} :
                    /\ lower' = nw.lower /\ upper' = nw.upper
                    /\ tea' = t /\ niter' = niter + 1
                    /\ bslog' = Append(bslog,
                                  BsRec(t, ans, lower, upper, None, None, None, None, 1))
                    /\ UNCHANGED <<pc, ret, space, heap, adaptor, log>>
          ELSE \E d \in {DeepCopy(space, heap)} :
                  /\ pc' = "probe"
                  /\ tea' = t
                  /\ heap' = d.heap
                  /\ adaptor' = [adaptor EXCEPT !.work = Some(d.space), !.niter = 0,
                                                !.omega_tea = Some(t),
                                                !.before = Some(View(space, heap))]
                  /\ log' = <<>>
                  /\ UNCHANGED <<ret, niter, space, lower, upper, bslog>>
    /\ UNCHANGED <<driver, options, x_best, retry, T, calc, twin, seg>>

\* BSearchAdaptor.assess_bs, lines 402-406: one pass of cutting_plane_feas on
\* the working copy; when that returns, assess_bs returns and bsearch takes
\* its answer (lines 359-362)
assess_bs ==
    /\ pc = "probe"
    /\ \E cut \in IF RangeDone(adaptor.niter, adaptor.options) THEN {None}
                  ELSE AdaptorResponses :
       \E b \in {IF RangeDone(adaptor.niter, adaptor.options)
                 THEN Pass("done",
                           Some([x |-> None, niter |-> adaptor.options.max_iters]),
                           adaptor.work[1], heap, None)
                 ELSE FeasBody(adaptor.work[1], heap, adaptor.niter,
                               adaptor.options, cut)} :
       \E log1 \in {IF b.rec = None THEN log ELSE Append(log, b.rec)} :
            IF b.pc = "loop"
            THEN /\ adaptor' = [adaptor EXCEPT !.work = Some(b.space), !.niter = @ + 1]
                 /\ heap' = b.heap
                 /\ log' = log1
                 /\ UNCHANGED <<pc, space, lower, upper, niter, bslog>>
            ELSE IF b.pc = "raised"
            THEN /\ pc' = "raised"
                 /\ adaptor' = [adaptor EXCEPT !.work = Some(b.space)]
                 /\ heap' = b.heap
                 /\ log' = log1
                 /\ UNCHANGED <<space, lower, upper, niter, bslog>>
            ELSE \E x_feas \in {b.ret[1].x} :
                 \E sp1 \in {IF x_feas # None THEN set_xc(space, x_feas[1]) ELSE space} :
                 \E nw \in {Narrow(lower, upper, tea, x_feas # None)} :
                    /\ pc' = "loop"
                    /\ space' = sp1
                    /\ heap' = b.heap
                    /\ lower' = nw.lower /\ upper' = nw.upper
                    /\ niter' = niter + 1
                    /\ adaptor' = [adaptor EXCEPT !.work = None]
                    /\ log' = log1
                    /\ bslog' = Append(bslog,
                                  BsRec(tea, x_feas # None, lower, upper, adaptor.before[1],
                                        View(sp1, b.heap), View(b.space, b.heap),
                                        IF x_feas # None THEN Some(b.heap[x_feas[1]])
                                        ELSE None,
                                        Len(log1)))
    /\ UNCHANGED <<driver, options, tea, x_best, retry, T, ret, calc, twin, seg>>

(* --------------------------- specification ---------------------------- *)
Drivers == {"feas", "optim", "feas_q", "optim_q", "bsearch"}

Init ==
    /\ driver \in Drivers
    /\ pc = "loop"
    /\ options \in Options
    /\ niter = 0
    /\ heap = <<Xinit>>
    /\ space = Ell(Val0, heap, 1)
    /\ tea = Tea0
    /\ x_best = None
    /\ retry = FALSE
    /\ \E iv \in IF driver = "bsearch" THEN Intervals ELSE {<<Int_(0), Int_(0)>>} :
         lower = iv[1] /\ upper = iv[2] /\ T = iv[2].ty
    /\ adaptor \in IF driver = "bsearch"
                   THEN {NoAdaptor} \cup {BSearchAdaptor(o) : o \in AdaptorOptions}
                   ELSE {NoAdaptor}
    /\ ret = None
    /\ log = <<>>
    /\ bslog = <<>>
    /\ calc = None
    /\ twin = None
    /\ seg = None

Next ==
    \/ cutting_plane_feas
    \/ cutting_plane_optim
    \/ cutting_plane_feas_q
    \/ cutting_plane_optim_q
    \/ bsearch
    \/ assess_bs

Spec == Init /\ [][Next]_vars

(* ------------------------------ properties ---------------------------- *)
SetMin(S) == CHOOSE x \in S : \A y \in S : x <= y
SetMax(S) == CHOOSE x \in S : \A y \in S : x >= y
Returned == pc = "done"
\* the oracle calls of cutting_plane_feas / cutting_plane_optim after which
\* the loop has to return
ContStops == {i \in 1..Len(log) :
                \/ log[i].kind = "none"
                \/ log[i].status # "Success"
                \/ log[i].tsq < options.tol}

\* C1: cutting_plane_feas returns (space.xc(), k) at the first pass k in which
\* the oracle gives no cut, and no update is applied in that pass; it returns
\* (None, k) at the first pass k in which update_dc is not Success or
\* tsq() < tol after the update; otherwise it returns (None, max_iters) after
\* max_iters passes.
C1_FeasResult ==
    driver = "feas" =>
        /\ \A i \in 1..Len(log) : (log[i].kind = "none") = (log[i].resp = None)
        /\ \A i \in 1..Len(log) : log[i].kind \in {"none", "dc"}
        /\ pc = "loop" => ContStops = {} /\ Len(log) = niter
        /\ Returned =>
             IF ContStops = {}
             THEN /\ Len(log) = options.max_iters
                  /\ ret[1] = [x |-> None, niter |-> options.max_iters]
             ELSE LET k == SetMin(ContStops)
                  IN /\ Len(log) = k
                     /\ ret[1].niter = k - 1
                     /\ IF log[k].resp = None
                        THEN /\ ret[1].x = Some(space.xc)
                             /\ heap[space.xc] = log[k].xc
                        ELSE ret[1].x = None
\* a feasible point found in the third pass, after two updates
C1_Witness ==
    /\ driver = "feas" /\ Returned
    /\ ret[1].x # None /\ ret[1].niter = 2
    /\ heap[space.xc] # Xinit

\* C2: a probe of BSearchAdaptor.assess_bs that returns False leaves the
\* adaptor's own search space (center, shape matrix, kappa, tsq) as it was
\* before the probe, also while the inner cutting_plane_feas is running.
C2_FailedProbeIsolated ==
    (driver = "bsearch" /\ adaptor.used) =>
        /\ pc = "probe" => View(space, heap) = adaptor.before[1]
        /\ \A i \in 1..Len(bslog) : ~bslog[i].ans => bslog[i].after = bslog[i].before
\* a failed probe whose working copy was moved by an update
C2_Witness ==
    /\ driver = "bsearch" /\ adaptor.used
    /\ \E i \in 1..Len(bslog) :
          /\ ~bslog[i].ans
          /\ bslog[i].work.xc # bslog[i].before.xc
          /\ bslog[i].work.mq # bslog[i].before.mq

\* C3: every pass of cutting_plane_optim applies exactly one update, update_cc
\* when the oracle reported a new t and update_dc when it did not, and the
\* loop returns at the first pass whose update is not Success or leaves
\* tsq() < tol.
C3_OptimUpdate ==
    driver = "optim" =>
        /\ \A i \in 1..Len(log) :
              log[i].kind = IF log[i].resp.t1 # None THEN "cc" ELSE "dc"
        /\ pc = "loop" => ContStops = {} /\ Len(log) = niter
        /\ Returned =>
             IF ContStops = {}
             THEN Len(log) = options.max_iters /\ ret[1].niter = options.max_iters
             ELSE Len(log) = SetMin(ContStops) /\ ret[1].niter = SetMin(ContStops) - 1
\* a run with a central and a deep cut that returned in its third pass
C3_Witness ==
    /\ driver = "optim" /\ Returned /\ Len(log) = 3 /\ ret[1].niter = 2
    /\ \E i, j \in 1..Len(log) : log[i].kind = "cc" /\ log[j].kind = "dc"

\* the passes of an optim driver in which the oracle reported a new t
Reports == {i \in 1..Len(log) : log[i].resp.t1 # None}

\* C4: cutting_plane_optim returns the last t the oracle reported (the initial
\* t if none) and, as x_best, a copy of the center queried in the pass of that
\* report, which later updates do not change; x_best is None exactly when the
\* oracle never reported a t.
C4_OptimBest ==
    driver = "optim" =>
        /\ IF Reports = {}
           THEN x_best = None /\ tea = Tea0
           ELSE /\ x_best # None
                /\ heap[x_best[1]] = log[SetMax(Reports)].xc
                /\ tea = log[SetMax(Reports)].resp.t1[1]
        /\ Returned => ret[1].x = x_best /\ ret[1].t = tea
\* x_best was recorded, and a later update moved the center away from it
C4_Witness ==
    /\ driver = "optim" /\ Returned
    /\ Reports # {} /\ SetMax(Reports) < Len(log)
    /\ heap[ret[1].x[1]] # heap[space.xc]
    /\ \E i \in Reports : log[i].resp.t1[1] > ret[1].t

\* C5: in cutting_plane_feas_q and cutting_plane_optim_q the retry flag given
\* to the oracle is False in the first call and after a Success, and True
\* exactly when the previous update_q returned NoEffect with more_alt True;
\* a retry call gets the same center as the call before it.
C5_Retry ==
    driver \in {"feas_q", "optim_q"} =>
        \A i \in 1..Len(log) :
            /\ log[i].retry = (i > 1 /\ log[i - 1].status = "NoEffect"
                                     /\ log[i - 1].resp.more_alt)
            /\ log[i].retry => log[i].xc = log[i - 1].xc
\* a retry call that follows a call after a Success
C5_Witness ==
    /\ driver \in {"feas_q", "optim_q"}
    /\ Len(log) = 3 /\ log[3].retry /\ log[1].status = "Success"
    /\ log[2].xc # log[1].xc

\* C6: cutting_plane_feas_q returns (x_q, k), the oracle's candidate, in the
\* first pass k in which the oracle gives no cut, and (None, k) in the first
\* pass k in which update_q returns NoSoln, or NoEffect with more_alt False.
C6_FeasQResult ==
    driver = "feas_q" =>
        \A i \in 1..Len(log) :
            /\ log[i].resp.cut = None =>
                 /\ Returned /\ i = Len(log)
                 /\ ret[1] = [x |-> log[i].resp.x_q, niter |-> i - 1]
            /\ (\/ log[i].status = "NoSoln"
                \/ log[i].status = "NoEffect" /\ ~log[i].resp.more_alt) =>
                 /\ Returned /\ i = Len(log)
                 /\ ret[1] = [x |-> None, niter |-> i - 1]
\* the candidate is returned in the third pass and is not the center
C6_Witness ==
    /\ driver = "feas_q" /\ Returned /\ Len(log) = 3
    /\ ret[1].x = Some(XQ1) /\ heap[space.xc] # XQ1
    /\ log[2].status = "NoEffect"

\* C7: every pass of cutting_plane_optim_q applies update_q, with or without
\* a new t, and x_best is the candidate x_q of the last pass that reported a
\* new t (None if there was none).
C7_OptimQ ==
    driver = "optim_q" =>
        /\ \A i \in 1..Len(log) : log[i].kind = "q"
        /\ IF Reports = {}
           THEN x_best = None /\ tea = Tea0
           ELSE /\ x_best = Some(log[SetMax(Reports)].resp.x_q)
                /\ tea = log[SetMax(Reports)].resp.t1[1]
        /\ Returned => ret[1].x = x_best /\ ret[1].t = tea
\* two reports with different candidates, then a pass without a report
C7_Witness ==
    /\ driver = "optim_q" /\ Returned /\ Len(log) = 3
    /\ Reports = {1, 2}
    /\ log[1].resp.x_q # log[2].resp.x_q
    /\ ret[1].x = Some(log[2].resp.x_q)

\* the oracle calls made so far by the driver
Calls == IF driver = "bsearch"
         THEN Len(bslog) + (IF pc = "probe" THEN 1 ELSE 0)
         ELSE Len(log)

\* the oracle calls after which a driver returns inside its loop
Stops == IF driver \in {"feas", "optim"} THEN ContStops
         ELSE {i \in 1..Len(log) :
                 \/ log[i].kind = "none"
                 \/ log[i].status = "NoSoln"
                 \/ log[i].status = "NoEffect" /\ ~log[i].resp.more_alt
                 \/ log[i].tsq < options.tol}
\* the loop of the driver came to its end: max_iters passes, none returned
BudgetRanOut == IF driver = "bsearch" THEN Len(bslog) = options.max_iters
                ELSE Len(log) = options.max_iters /\ Stops = {}
C8_Counts ==
    /\ Calls <= options.max_iters
    /\ (driver = "bsearch" /\ adaptor.used) => Len(log) <= adaptor.options.max_iters
    /\ Returned =>
         /\ ret[1].niter \in 0..options.max_iters
         /\ (ret[1].niter = options.max_iters) = BudgetRanOut
C8_ThenReturns ==
    (pc = "loop" /\ Calls = options.max_iters) => pc' = "done"

\* C8: every driver calls its oracle at most max_iters times and returns in
\* the step after the last of them; the count it returns is in 0..max_iters
\* and is max_iters exactly when the loop ran out of passes; the retry passes
\* of the discrete drivers count like any other.
C8_Budget == [](C8_Counts) /\ [][C8_ThenReturns]_vars
\* a discrete driver that used its whole budget, one pass of it on a retry
C8_Witness ==
    /\ driver = "feas_q" /\ Returned
    /\ options.max_iters = 3 /\ ret[1].niter = 3
    /\ \E i \in 1..Len(log) : log[i].retry

\* the midpoint lower + (upper - lower) / 2 of a logged probe
Mid(e) == e.lower.v + (e.upper.v - e.lower.v) \div 2
\* x is mid truncated toward zero to a whole number
TruncOf(x, mid) ==
    /\ x % SCALE = 0
    /\ IF mid >= 0 THEN x <= mid /\ mid - x < SCALE
       ELSE x >= mid /\ x - mid < SCALE
\* the interval bsearch was called with
Lower0 == IF bslog = <<>> THEN lower ELSE bslog[1].lower
Upper0 == IF bslog = <<>> THEN upper ELSE bslog[1].upper
\* what C9 says besides the value of the probe
BsearchShape ==
    /\ \A i \in 1..Len(bslog) :
          /\ ~((bslog[i].upper.v - bslog[i].lower.v) \div 2 < options.tol)
          /\ LET nl == IF i < Len(bslog) THEN bslog[i + 1].lower ELSE lower
                 nu == IF i < Len(bslog) THEN bslog[i + 1].upper ELSE upper
             IN IF bslog[i].ans
                THEN nu = bslog[i].tea /\ nl = bslog[i].lower
                ELSE nl = bslog[i].tea /\ nu = bslog[i].upper
    /\ Returned =>
          /\ ret[1].x = upper
          /\ ret[1].niter = IF (upper.v - lower.v) \div 2 < options.tol
                            THEN Len(bslog) ELSE options.max_iters
          /\ \/ ret[1].x = Upper0
             \/ \E i \in 1..Len(bslog) : bslog[i].ans /\ ret[1].x = bslog[i].tea

\* C9 as stated: bsearch returns (upper, k) in the first pass k with
\* (upper - lower)/2 < tol; before that every pass probes
\* t = lower + (upper - lower)/2, sets upper to t on True and lower to t on
\* False, so the value returned is the initial upper or a probe answered True.
C9_AsStated ==
    driver = "bsearch" =>
        /\ BsearchShape
        /\ \A i \in 1..Len(bslog) : bslog[i].tea.v = Mid(bslog[i])

\* C9 amended: as C9, with the probe t = T(lower + (upper - lower)/2), T the
\* type of the upper bound given: the midpoint itself when T is float, the
\* midpoint truncated toward zero when T is int.
C9_Bsearch ==
    driver = "bsearch" =>
        /\ BsearchShape
        /\ \A i \in 1..Len(bslog) :
              IF T = "float" THEN bslog[i].tea.v = Mid(bslog[i])
              ELSE TruncOf(bslog[i].tea.v, Mid(bslog[i]))
\* an integer search whose probe is not the midpoint and that returned on
\* (upper - lower)/2 < tol
C9_Witness ==
    /\ driver = "bsearch" /\ Returned /\ T = "int"
    /\ ret[1].niter < options.max_iters
    /\ \E i \in 1..Len(bslog) : bslog[i].tea.v # Mid(bslog[i])
    /\ ret[1].x # Upper0

\* C10: when both bounds given to bsearch are integers, every value passed to
\* assess_bs and the value returned are integers.
IsInteger(x) == x.ty = "int" /\ x.v % SCALE = 0
C10_IntegerSearch ==
    (driver = "bsearch" /\ IsInteger(Lower0) /\ IsInteger(Upper0)) =>
        /\ \A i \in 1..Len(bslog) : IsInteger(bslog[i].tea)
        /\ pc = "probe" => IsInteger(tea) /\ adaptor.omega_tea = Some(tea)
        /\ IsInteger(lower) /\ IsInteger(upper)
        /\ Returned => IsInteger(ret[1].x)
\* an integer search that probed a truncated midpoint and returned
C10_Witness ==
    /\ driver = "bsearch" /\ Returned
    /\ IsInteger(Lower0) /\ IsInteger(Upper0)
    /\ Len(bslog) >= 2
    /\ \E i \in 1..Len(bslog) : bslog[i].tea.v # Mid(bslog[i])

\* C11: assess_bs(t) sets the oracle's parameter to t and runs
\* cutting_plane_feas on a deep copy of the adaptor's space; it answers True
\* exactly when that run ended with the oracle giving no cut at some point x,
\* and then the adaptor's center is x while its matrix and kappa are those
\* from before the probe.
C11_AssessBs ==
    (driver = "bsearch" /\ adaptor.used) =>
        /\ pc = "probe" =>
              /\ adaptor.omega_tea = Some(tea)
              /\ adaptor.work[1].xc # space.xc
              /\ log = <<>> => View(adaptor.work[1], heap) = View(space, heap)
        /\ \A i \in 1..Len(bslog) :
              /\ bslog[i].ans = (bslog[i].x_feas # None)
              /\ bslog[i].ans =>
                    /\ bslog[i].after.xc = bslog[i].x_feas[1]
                    /\ bslog[i].after.xc = bslog[i].work.xc
                    /\ bslog[i].after.mq = bslog[i].before.mq
                    /\ bslog[i].after.kappa = bslog[i].before.kappa
        /\ (pc # "probe" /\ bslog # <<>>) =>
              LET e == bslog[Len(bslog)]
              IN /\ e.calls = Len(log)
                 /\ e.ans = (log # <<>> /\ log[Len(log)].kind = "none")
                 /\ e.ans => e.x_feas = Some(log[Len(log)].xc)
                 /\ e.ans => View(space, heap) = e.after
\* a probe answered True at a point the working copy had moved to
C11_Witness ==
    /\ driver = "bsearch" /\ adaptor.used /\ pc # "probe" /\ bslog # <<>>
    /\ bslog[Len(bslog)].ans
    /\ Len(log) >= 2
    /\ bslog[Len(bslog)].after.xc # bslog[Len(bslog)].before.xc
    /\ bslog[Len(bslog)].work.mq # bslog[Len(bslog)].after.mq

(* ---------------------- EllCalc called directly ----------------------- *)
\* the drivers are not running
DriversIdle ==
    /\ driver = "none" /\ pc = "idle"
    /\ options = [max_iters |-> 0, tol |-> 1]
    /\ niter = 0
    /\ heap = <<Xinit>>
    /\ space = Ell(Val0, heap, 1)
    /\ tea = Tea0 /\ x_best = None /\ retry = FALSE
    /\ lower = Int_(0) /\ upper = Int_(0) /\ T = "int"
    /\ adaptor = NoAdaptor
    /\ ret = None /\ log = <<>> /\ bslog = <<>>

\* the arguments tried: the dimension n, the use_parallel_cut flag, beta as a
\* number, a one-entry or a two-entry list, and tsq
Dims == {2, 3}
Betas == {-Fx(1), 0, Fx(1) \div 2, Fx(1), Fx(1) + Fx(1) \div 6, Fx(2)}
Tsqs == {0, Fx(1), Fx(4), Fx(16)} \cup {FMul(b, b) : b \in Betas}
CalcArgs == [n : Dims, upc : BOOLEAN, shape : {"scalar", "one", "two"},
             b0 : Betas, b1 : Betas, tsq : Tsqs]
\* EllCalc(n) with its use_parallel_cut attribute set
Helper(a) == [EllCalc(a.n) EXCEPT !.use_parallel_cut = a.upc]
\* the beta handed to a dispatcher
BetaOf(a) == CASE a.shape = "scalar" -> Scalar(a.b0)
               [] a.shape = "one" -> List(<<a.b0>>)
               [] a.shape = "two" -> List(<<a.b0, a.b1>>)

CalcInit ==
    /\ DriversIdle
    /\ twin = None
    /\ seg = None
    /\ \E a \in CalcArgs : calc = [op |-> "none", args |-> a, res |-> None]

\* no method has been called yet
CanCall == calc # None /\ calc.op = "none"
\* the method op was called and returned (or raised) r
AfterCall(op, r) == [calc EXCEPT !.op = op, !.res = Some(r)]

call_calc_dc ==
    /\ CanCall
    /\ calc' = AfterCall("calc_dc",
                 calc_dc(Helper(calc.args), calc.args.b0, calc.args.tsq))
    /\ UNCHANGED <<drivervars, twin, seg>>
call_calc_cc ==
    /\ CanCall
    /\ calc' = AfterCall("calc_cc",
                 calc_cc(Helper(calc.args), calc.args.tsq))
    /\ UNCHANGED <<drivervars, twin, seg>>
call_calc_ll ==
    /\ CanCall
    /\ calc' = AfterCall("calc_ll",
                 calc_ll(Helper(calc.args), calc.args.b0, calc.args.b1, calc.args.tsq))
    /\ UNCHANGED <<drivervars, twin, seg>>
call_calc_ll_cc ==
    /\ CanCall
    /\ calc' = AfterCall("calc_ll_cc",
                 calc_ll_cc(Helper(calc.args), calc.args.b1, calc.args.tsq))
    /\ UNCHANGED <<drivervars, twin, seg>>
call_calc_dc_q ==
    /\ CanCall
    /\ calc' = AfterCall("calc_dc_q",
                 calc_dc_q(Helper(calc.args), calc.args.b0, calc.args.tsq))
    /\ UNCHANGED <<drivervars, twin, seg>>
call_calc_ll_q ==
    /\ CanCall
    /\ calc' = AfterCall("calc_ll_q",
                 calc_ll_q(Helper(calc.args), calc.args.b0, calc.args.b1, calc.args.tsq))
    /\ UNCHANGED <<drivervars, twin, seg>>
call_calc_single_or_ll ==
    /\ CanCall
    /\ calc' = AfterCall("calc_single_or_ll",
                 calc_single_or_ll(Helper(calc.args), BetaOf(calc.args), calc.args.tsq))
    /\ UNCHANGED <<drivervars, twin, seg>>
call_calc_single_or_ll_cc ==
    /\ CanCall
    /\ calc' = AfterCall("calc_single_or_ll_cc",
                 calc_single_or_ll_cc(Helper(calc.args), BetaOf(calc.args), calc.args.tsq))
    /\ UNCHANGED <<drivervars, twin, seg>>
call_calc_single_or_ll_q ==
    /\ CanCall
    /\ calc' = AfterCall("calc_single_or_ll_q",
                 calc_single_or_ll_q(Helper(calc.args), BetaOf(calc.args), calc.args.tsq))
    /\ UNCHANGED <<drivervars, twin, seg>>

\* Ell and EllStable of dimension n whose first update, with a cut along the
\* first axis, meets tsq = kappa
Basis(n, j) == [i \in 1..n |-> IF i = j THEN Fx(1) ELSE 0]
Zeros(n) == [i \in 1..n |-> 0]
EllOf(a) ==
    [Ell(Scalar(a.tsq), <<Zeros(a.n)>>, 1) EXCEPT !.helper.use_parallel_cut = a.upc]
StableOf(a) ==
    [EllStable(Scalar(a.tsq), <<Zeros(a.n)>>, 1) EXCEPT !.helper.use_parallel_cut = a.upc]
\* the status that update_dc / update_cc / update_q return, of Ell and of
\* EllStable
Statuses2(kind, a) ==
    [status |-> update(kind, EllOf(a), <<Zeros(a.n)>>,
                       Cut(Basis(a.n, 1), BetaOf(a))).status,
     stable |-> stable_update(kind, StableOf(a), <<Zeros(a.n)>>,
                              Cut(Basis(a.n, 1), BetaOf(a))).status]

call_update_dc ==
    /\ CanCall
    /\ calc' = AfterCall("update_dc", Statuses2("dc", calc.args))
    /\ UNCHANGED <<drivervars, twin, seg>>
call_update_cc ==
    /\ CanCall
    /\ calc' = AfterCall("update_cc", Statuses2("cc", calc.args))
    /\ UNCHANGED <<drivervars, twin, seg>>
call_update_q ==
    /\ CanCall
    /\ calc' = AfterCall("update_q", Statuses2("q", calc.args))
    /\ UNCHANGED <<drivervars, twin, seg>>

CalcNext ==
    \/ call_update_dc
    \/ call_update_cc
    \/ call_update_q
    \/ call_calc_dc
    \/ call_calc_cc
    \/ call_calc_ll
    \/ call_calc_ll_cc
    \/ call_calc_dc_q
    \/ call_calc_ll_q
    \/ call_calc_single_or_ll
    \/ call_calc_single_or_ll_cc
    \/ call_calc_single_or_ll_q

CalcSpec == CalcInit /\ [][CalcNext]_vars

(* ------------- Ell and EllStable given the same cuts ------------------ *)
X3 == <<0, 0, 0>>
TwinVals == {Scalar(Fx(4)), List(<<Fx(4), Fx(1), Fx(2)>>)}
TwinGrads == {<<0, Fx(1), 0>>, <<Fx(1), Fx(1), 0>>}
TwinBetas == {Scalar(0), Scalar(Fx(1)), Scalar(Fx(2)), Scalar(Fx(3)), Scalar(-Fx(1)),
              List(<<0, Fx(1)>>), List(<<Fx(1), Fx(1) \div 2>>)}
TwinCuts == {Cut(g, b) : g \in TwinGrads, b \in TwinBetas}

\* an ellipsoid with its own center array, and the status of its last update
Fresh(s) == [status |-> "none", space |-> s, heap |-> <<X3>>]
TwinStart(val, upc) ==
    [ell |-> [d \in BOOLEAN |->
                Fresh([Ell(val, <<X3>>, 1) EXCEPT !.no_defer_trick = d,
                                                  !.helper.use_parallel_cut = upc])],
     stable |-> [d \in BOOLEAN |->
                Fresh([EllStable(val, <<X3>>, 1) EXCEPT !.no_defer_trick = d,
                                                        !.helper.use_parallel_cut = upc])],
     count |-> 0, kind |-> "none", cut |-> None, before |-> None]

TwinInit ==
    /\ DriversIdle
    /\ calc = None
    /\ seg = None
    /\ \E val \in TwinVals, upc \in BOOLEAN : twin = Some(TwinStart(val, upc))

\* every ellipsoid is still usable: no update has raised
CanUpdate ==
    /\ twin # None
    /\ twin[1].count < MaxUpdates
    /\ \A d \in BOOLEAN : /\ twin[1].ell[d].status \in Statuses \cup {"none"}
                          /\ twin[1].stable[d].status \in Statuses \cup {"none"}

\* the four ellipsoids after one update of the given kind with the same cut
Updated(t, kind, cut) ==
    [ell |-> [d \in BOOLEAN |-> update(kind, t.ell[d].space, t.ell[d].heap, cut)],
     stable |-> [d \in BOOLEAN |->
                   stable_update(kind, t.stable[d].space, t.stable[d].heap, cut)],
     count |-> t.count + 1, kind |-> kind, cut |-> Some(cut),
     before |-> Some([ell |-> t.ell, stable |-> t.stable])]

twin_update_dc ==
    /\ CanUpdate
    /\ \E cut \in TwinCuts : twin' = Some(Updated(twin[1], "dc", cut))
    /\ UNCHANGED <<drivervars, calc, seg>>

twin_update_cc ==
    /\ CanUpdate
    /\ \E cut \in TwinCuts : twin' = Some(Updated(twin[1], "cc", cut))
    /\ UNCHANGED <<drivervars, calc, seg>>

twin_update_q ==
    /\ CanUpdate
    /\ \E cut \in TwinCuts : twin' = Some(Updated(twin[1], "q", cut))
    /\ UNCHANGED <<drivervars, calc, seg>>

TwinNext ==
    \/ twin_update_dc
    \/ twin_update_cc
    \/ twin_update_q

TwinSpec == TwinInit /\ [][TwinNext]_vars

(* -------------------------- EllCalc properties ------------------------ *)
CalcDone == calc # None /\ calc.op # "none"
\* the arguments meet the documented constraints of the method called:
\* beta >= 0 where calc_dc is reached, beta0 <= beta1 for a parallel cut
ToSingle(a) == a.shape # "two" \/ ~a.upc
Documented ==
    LET a == calc.args
    IN CASE calc.op = "calc_dc" -> a.b0 >= 0
         [] calc.op \in {"calc_ll", "calc_ll_q"} -> a.b0 <= a.b1
         [] calc.op = "calc_ll_cc" -> a.b1 >= 0
         [] calc.op = "calc_single_or_ll" ->
                IF ToSingle(a) THEN a.b0 >= 0 ELSE a.b0 <= a.b1
         [] calc.op = "calc_single_or_ll_q" ->
                ToSingle(a) \/ a.b0 <= a.b1
         [] calc.op = "calc_single_or_ll_cc" -> ToSingle(a) \/ a.b1 >= 0
         [] calc.op \in {"update_dc", "update_cc", "update_q"} -> FALSE
         [] OTHER -> TRUE

\* C13 as stated: every calc_* method returns exactly one status of
\* {Success, NoSoln, NoEffect} for every input with tsq > 0 that meets the
\* documented constraints, beta1 = 0 and beta0 = -beta1 included, and
\* (rho, sigma, delta) = (0, 0, 0) whenever the status is not Success.
C13_AsStated ==
    (CalcDone /\ calc.args.tsq > 0 /\ Documented) =>
        /\ calc.res[1].status \in Statuses
        /\ calc.res[1].status # "Success" => calc.res[1] = Res(calc.res[1].status, 0, 0, 0)

\* two numbers that differ by rounding at most
Eps == SCALE \div 16
Near(x, y) == x - y <= Eps /\ y - x <= Eps
NearRes(r1, r2) ==
    /\ r1.status = r2.status
    /\ Near(r1.rho, r2.rho) /\ Near(r1.sigma, r2.sigma) /\ Near(r1.delta, r2.delta)

\* C14 as stated, at beta > 0: for beta = beta0 = beta1 and tsq >= beta^2,
\* calc_ll(beta, beta, tsq) returns what calc_dc(beta, tsq) returns (up to
\* rounding).
C14_AsStated ==
    (CalcDone /\ calc.op = "calc_ll" /\ calc.args.b0 = calc.args.b1
       /\ calc.args.b0 > 0 /\ calc.args.tsq >= FMul(calc.args.b0, calc.args.b0)) =>
        NearRes(calc.res[1], calc_dc(Helper(calc.args), calc.args.b0, calc.args.tsq))

\* C14 amended: calc_ll(beta0, beta1, tsq) returns what calc_dc(beta0, tsq)
\* returns when 0 <= beta0 <= beta1, beta1 > 0 and tsq < beta1^2 (the upper
\* cut misses the ellipsoid); for beta = beta0 = beta1 > 0 and tsq >= beta^2
\* it returns Success with sigma = 1 and rho = beta (up to rounding), the
\* update onto the hyperplane, which is calc_dc's result only at tsq = beta^2.
C14_ParallelDegeneration ==
    (CalcDone /\ calc.op = "calc_ll") =>
        LET a == calc.args
            r == calc.res[1]
        IN /\ (0 <= a.b0 /\ a.b0 <= a.b1 /\ 0 < a.b1 /\ a.tsq < FMul(a.b1, a.b1)) =>
                 r = calc_dc(Helper(a), a.b0, a.tsq)
           /\ (a.b0 = a.b1 /\ 0 < a.b0 /\ a.tsq >= FMul(a.b0, a.b0)) =>
                 /\ r.status = "Success"
                 /\ Near(r.sigma, Fx(1)) /\ Near(r.rho, a.b0)
           /\ (a.b0 = a.b1 /\ 0 < a.b0 /\ a.tsq = FMul(a.b0, a.b0)) =>
                 NearRes(r, calc_dc(Helper(a), a.b0, a.tsq))
\* calc_ll handed the cut to calc_dc, which succeeded
C14_Witness ==
    /\ CalcDone /\ calc.op = "calc_ll"
    /\ 0 < calc.args.b0 /\ calc.args.b0 < calc.args.b1
    /\ calc.args.tsq < FMul(calc.args.b1, calc.args.b1)
    /\ calc.res[1].status = "Success"

\* C18: with use_parallel_cut False a dispatcher given a two-entry beta
\* returns what the single-cut method returns (calc_dc(beta[0]), calc_cc,
\* calc_dc_q(beta[0])); with the flag True a two-entry beta goes to calc_ll,
\* calc_ll_cc(beta[1]), calc_ll_q; a scalar beta always takes the single-cut
\* method.
C18_Dispatch ==
    CalcDone =>
        LET a == calc.args
            h == Helper(a)
            r == calc.res[1]
            single == a.shape = "scalar" \/ (a.shape = "two" /\ ~a.upc)
            parallel == a.shape = "two" /\ a.upc
        IN /\ calc.op = "calc_single_or_ll" =>
                /\ single => r = calc_dc(h, a.b0, a.tsq)
                /\ parallel => r = calc_ll(h, a.b0, a.b1, a.tsq)
           /\ calc.op = "calc_single_or_ll_cc" =>
                /\ single => r = calc_cc(h, a.tsq)
                /\ parallel => r = calc_ll_cc(h, a.b1, a.tsq)
           /\ calc.op = "calc_single_or_ll_q" =>
                /\ single => r = calc_dc_q(h, a.b0, a.tsq)
                /\ parallel => r = calc_ll_q(h, a.b0, a.b1, a.tsq)
\* with the flag off, a two-entry beta got the central cut, which is not what
\* the parallel central cut would have returned
C18_Witness ==
    /\ CalcDone /\ calc.op = "calc_single_or_ll_cc"
    /\ calc.args.shape = "two" /\ ~calc.args.upc
    /\ calc.res[1].status = "Success"
    /\ LET p == calc_ll_cc([Helper(calc.args) EXCEPT !.use_parallel_cut = TRUE],
                           calc.args.b1, calc.args.tsq)
       IN p.status = "Success" /\ p.sigma # calc.res[1].sigma

\* C19 as stated: for tsq > 0, calc_dc(0, tsq) returns the same
\* (status, rho, sigma, delta) as calc_cc(tsq).
C19_AsStated ==
    (CalcDone /\ calc.op = "calc_dc" /\ calc.args.b0 = 0 /\ calc.args.tsq > 0) =>
        calc.res[1] = calc_cc(Helper(calc.args), calc.args.tsq)

\* at most three units of the grid apart
Close(x, y) == x - y <= 3 /\ y - x <= 3
\* C19 amended: for tsq > 0, calc_dc(0, tsq) returns Success with the rho and
\* delta of calc_cc(tsq) and with a sigma that equals calc_cc's up to the
\* rounding of (cst2 * tau) / tau; these are tau/(n+1), 2/(n+1) and
\* n^2/(n^2-1) up to rounding.
C19_CentralLimit ==
    (CalcDone /\ calc.op = "calc_dc" /\ calc.args.b0 = 0 /\ calc.args.tsq > 0) =>
        LET h == Helper(calc.args)
            r == calc.res[1]
            cc == calc_cc(h, calc.args.tsq)
            tau == FSqrt(calc.args.tsq)
        IN /\ r.status = "Success" /\ cc.status = "Success"
           /\ r.rho = cc.rho /\ r.delta = cc.delta
           /\ Close(r.sigma, cc.sigma)
           /\ Close(cc.rho, FDiv(tau, h.n_f + Fx(1)))
           /\ Close(cc.sigma, FDiv(Fx(2), h.n_f + Fx(1)))
           /\ Close(cc.delta, FDiv(FMul(h.n_f, h.n_f), FMul(h.n_f, h.n_f) - Fx(1)))
\* a central cut through calc_dc whose sigma is not calc_cc's to the last digit
C19_Witness ==
    /\ CalcDone /\ calc.op = "calc_dc" /\ calc.args.b0 = 0 /\ calc.args.tsq > Fx(1)
    /\ calc.res[1].status = "Success"
    /\ calc.res[1].sigma # calc_cc(Helper(calc.args), calc.args.tsq).sigma

\* C20 as stated: for beta >= 0, calc_dc(beta, tsq) and calc_dc_q(beta, tsq)
\* return identical (rho, sigma, delta) when both return Success, and never
\* disagree on the status: both NoSoln exactly when tau < beta.
C20_AsStated ==
    (CalcDone /\ calc.op \in {"calc_dc", "calc_dc_q"}
       /\ calc.args.b0 >= 0 /\ calc.args.tsq > 0) =>
        LET d == calc_dc(Helper(calc.args), calc.args.b0, calc.args.tsq)
            q == calc_dc_q(Helper(calc.args), calc.args.b0, calc.args.tsq)
        IN /\ (d.status = "Success" /\ q.status = "Success") => d = q
           /\ d.status = q.status
           /\ (d.status = "NoSoln") = (FSqrt(calc.args.tsq) < calc.args.b0)

\* C20 amended: for beta >= 0 and tsq > 0, calc_dc and calc_dc_q return
\* identical (rho, sigma, delta) when both return Success; calc_dc returns
\* NoSoln exactly when tsq < beta * beta and calc_dc_q exactly when
\* sqrt(tsq) < beta, and the two statuses agree unless tsq is within rounding
\* of beta^2.
C20_DiscreteDeepCut ==
    (CalcDone /\ calc.op \in {"calc_dc", "calc_dc_q"}
       /\ calc.args.b0 >= 0 /\ calc.args.tsq > 0) =>
        LET a == calc.args
            bsq == FMul(a.b0, a.b0)
            r == calc.res[1]
            d == IF calc.op = "calc_dc" THEN r ELSE calc_dc(Helper(a), a.b0, a.tsq)
            q == IF calc.op = "calc_dc_q" THEN r ELSE calc_dc_q(Helper(a), a.b0, a.tsq)
        IN /\ d.status \in {"Success", "NoSoln"} /\ q.status \in {"Success", "NoSoln"}
           /\ (d.status = "Success" /\ q.status = "Success") => d = q
           /\ (d.status = "NoSoln") = (a.tsq < bsq)
           /\ (q.status = "NoSoln") = (FSqrt(a.tsq) < a.b0)
           /\ (a.tsq < bsq - 1 \/ a.tsq > bsq + 1) => d.status = q.status
\* a discrete deep cut that succeeded, as the continuous one does
C20_Witness ==
    /\ CalcDone /\ calc.op = "calc_dc_q"
    /\ calc.args.b0 > 0 /\ calc.args.tsq > FMul(calc.args.b0, calc.args.b0) + 1
    /\ calc.res[1].status = "Success" /\ calc.res[1].delta > 0
    /\ calc.res[1].rho > FMul(Helper(calc.args).cst0, FSqrt(calc.args.tsq))

(* ----------------------- Ell and EllStable compared ------------------- *)
Twin == twin[1]
TwinDone == twin # None /\ Twin.count > 0
Ok(m) == m.status \in Statuses
Center(m) == m.heap[m.space.xc]
\* the L and D parts of the stored matrix of an EllStable
Factors(mq) == [i \in 1..Len(mq) |-> [j \in 1..i |-> mq[i][j]]]
StrategyOf(kind) ==
    CASE kind = "dc" -> "calc_single_or_ll"
      [] kind = "cc" -> "calc_single_or_ll_cc"
      [] kind = "q" -> "calc_single_or_ll_q"
\* what the dispatcher of the last update returns for the cut and the tsq of m
Dispatched(m) ==
    cut_strategy(StrategyOf(Twin.kind), m.space.helper, Twin.cut[1].beta, m.space.tsq)

\* C12: when the dispatcher returns NoSoln or NoEffect, update_dc, update_cc
\* and update_q of Ell and of EllStable return that status and leave the
\* center, kappa and the shape (M, or the L and D parts) as they were.
C12_Rejected ==
    TwinDone =>
        \A d \in BOOLEAN :
            /\ Dispatched(Twin.ell[d]).status \in {"NoSoln", "NoEffect"} =>
                /\ Twin.ell[d].status = Dispatched(Twin.ell[d]).status
                /\ Center(Twin.ell[d]) = Center(Twin.before[1].ell[d])
                /\ Twin.ell[d].space.kappa = Twin.before[1].ell[d].space.kappa
                /\ Twin.ell[d].space.mq = Twin.before[1].ell[d].space.mq
            /\ Dispatched(Twin.stable[d]).status \in {"NoSoln", "NoEffect"} =>
                /\ Twin.stable[d].status = Dispatched(Twin.stable[d]).status
                /\ Center(Twin.stable[d]) = Center(Twin.before[1].stable[d])
                /\ Twin.stable[d].space.kappa = Twin.before[1].stable[d].space.kappa
                /\ Factors(Twin.stable[d].space.mq)
                       = Factors(Twin.before[1].stable[d].space.mq)
\* a rejected cut on an EllStable whose L is no longer the identity: the
\* products above the diagonal were rewritten, the factors were not
C12_Witness ==
    /\ TwinDone
    /\ Twin.stable[FALSE].status = "NoSoln"
    /\ Twin.ell[FALSE].status = "NoSoln"
    /\ Twin.stable[FALSE].space.mq # Twin.before[1].stable[FALSE].space.mq
    /\ Twin.stable[FALSE].space.mq[2][1] # 0
    /\ Twin.stable[FALSE].space.tsq # Twin.before[1].stable[FALSE].space.tsq

\* the matrix inv(L')*inv(D)*inv(L) that the factors of an EllStable stand
\* for, column by column
Factored(mq) ==
    [j \in 1..Len(mq) |->
        invLt(mq, invD(mq, invL(mq, Basis(Len(mq), j), 1, 2).invLg), Len(mq), Len(mq))]
\* kappa times the shape matrix: the ellipsoid that an object stands for
ImpliedEll(m) ==
    [i \in 1..Len(m.space.mq) |-> [j \in 1..Len(m.space.mq) |->
        FMul(m.space.kappa, m.space.mq[i][j])]]
ImpliedStable(m) ==
    [i \in 1..m.space.n |-> [j \in 1..m.space.n |->
        FMul(m.space.kappa, Factored(m.space.mq)[j][i])]]
\* equal up to a quarter: far more than rounding makes over MaxUpdates updates
Loose(x, y) == x - y <= SCALE \div 4 /\ y - x <= SCALE \div 4
LooseVec(a, b) == \A i \in 1..Len(a) : Loose(a[i], b[i])
LooseMat(a, b) == \A i \in 1..Len(a) : LooseVec(a[i], b[i])

\* C15 as stated: with no_defer_trick on and off, an Ell, and likewise an
\* EllStable, stand for the same ellipsoid after every call: same status,
\* same center, same kappa times shape, and kappa = 1 after every Success
\* with the trick on.  Checked after the first update, where the four start
\* from the same exact numbers and rounding cannot decide a status.
C15_AsStated ==
    (TwinDone /\ Twin.count = 1) =>
        /\ Twin.ell[TRUE].status = Twin.ell[FALSE].status
        /\ Twin.stable[TRUE].status = Twin.stable[FALSE].status
        /\ Twin.ell[TRUE].status = "Success" => Twin.ell[TRUE].space.kappa = Fx(1)
        /\ Twin.stable[TRUE].status = "Success" => Twin.stable[TRUE].space.kappa = Fx(1)
        /\ LooseVec(Center(Twin.ell[TRUE]), Center(Twin.ell[FALSE]))
        /\ LooseVec(Center(Twin.stable[TRUE]), Center(Twin.stable[FALSE]))
        /\ LooseMat(ImpliedEll(Twin.ell[TRUE]), ImpliedEll(Twin.ell[FALSE]))
        /\ LooseMat(ImpliedStable(Twin.stable[TRUE]), ImpliedStable(Twin.stable[FALSE]))

\* C16 as stated: given the same inputs, an EllStable and an Ell return the
\* same status from every update and have the same center, tsq and implied
\* shape (no_defer_trick left off, as it is by default).  Checked after the
\* first update, as C15 is.
C16_AsStated ==
    (TwinDone /\ Twin.count = 1) =>
        /\ Twin.stable[FALSE].status = Twin.ell[FALSE].status
        /\ LooseVec(Center(Twin.stable[FALSE]), Center(Twin.ell[FALSE]))
        /\ Loose(Twin.stable[FALSE].space.tsq, Twin.ell[FALSE].space.tsq)
        /\ LooseMat(ImpliedStable(Twin.stable[FALSE]), ImpliedEll(Twin.ell[FALSE]))

(* ----------------------- reversed parallel cuts ----------------------- *)
NoSolution == Res("NoSoln", 0, 0, 0)
Updates == {"update_dc", "update_cc", "update_q"}
\* a two-entry beta handed to an update while use_parallel_cut is on
ParallelUpdate == CalcDone /\ calc.op \in Updates /\ calc.args.shape = "two" /\ calc.args.upc

\* C17 as stated: calc_ll and calc_ll_q return (NoSoln, 0, 0, 0) whenever
\* beta1 < beta0, calc_ll_cc whenever beta1 < 0, for every tsq; so every
\* parallel cut with beta1 < beta0 handed to update_dc, update_cc or update_q
\* yields NoSoln.  (beta1 = 0, where calc_ll_cc divides by zero, belongs to C13
\* and is left out here.)
C17_AsStated ==
    /\ (CalcDone /\ calc.op \in {"calc_ll", "calc_ll_q"} /\ calc.args.b1 < calc.args.b0)
          => calc.res[1] = NoSolution
    /\ (CalcDone /\ calc.op = "calc_ll_cc" /\ calc.args.b1 < 0)
          => calc.res[1] = NoSolution
    /\ (ParallelUpdate /\ calc.args.b1 < calc.args.b0 /\ calc.args.b1 # 0)
          => calc.res[1].status = "NoSoln" /\ calc.res[1].stable = "NoSoln"

\* C17 amended: calc_ll and calc_ll_q return (NoSoln, 0, 0, 0) whenever
\* beta1 < beta0, calc_ll_cc whenever beta1 < 0, for every tsq; so, with
\* use_parallel_cut on, a parallel cut with beta1 < beta0 handed to update_dc
\* or update_q yields NoSoln, and one handed to update_cc, which looks at
\* beta1 only, yields what calc_ll_cc(beta1) yields: NoSoln when beta1 < 0.
C17_Reversed ==
    /\ (CalcDone /\ calc.op \in {"calc_ll", "calc_ll_q"} /\ calc.args.b1 < calc.args.b0)
          => calc.res[1] = NoSolution
    /\ (CalcDone /\ calc.op = "calc_ll_cc" /\ calc.args.b1 < 0)
          => calc.res[1] = NoSolution
    /\ (ParallelUpdate /\ calc.op # "update_cc" /\ calc.args.b1 < calc.args.b0)
          => calc.res[1].status = "NoSoln" /\ calc.res[1].stable = "NoSoln"
    /\ (ParallelUpdate /\ calc.op = "update_cc")
          => /\ calc_ll_cc(Helper(calc.args), calc.args.b1, calc.args.tsq).status
                    \in Statuses \ {"Success"}
                 => /\ calc.res[1].status
                        = calc_ll_cc(Helper(calc.args), calc.args.b1, calc.args.tsq).status
                    /\ calc.res[1].stable = calc.res[1].status
             /\ calc.args.b1 < 0 => calc.res[1].status = "NoSoln"
\* a reversed pair that update_q rejected although each of its cuts alone
\* meets the ellipsoid
C17_Witness ==
    /\ ParallelUpdate /\ calc.op = "update_q"
    /\ 0 < calc.args.b1 /\ calc.args.b1 < calc.args.b0
    /\ calc.args.tsq > FMul(calc.args.b0, calc.args.b0)
    /\ calc.res[1].status = "NoSoln" /\ calc.res[1].stable = "NoSoln"

(* ------------------------- discrete deep cut -------------------------- *)
\* C21: calc_dc_q(beta, tsq), with tau = sqrt(tsq), returns NoSoln when
\* tau < beta; NoEffect when tau >= beta and tau + n*beta <= 0; otherwise
\* Success with the scalars of the deep cut, and then the divisor tau + beta
\* of sigma (and the divisor tau of delta) is strictly positive.
C21_Classified ==
    (CalcDone /\ calc.op = "calc_dc_q") =>
        LET h == Helper(calc.args)
            beta == calc.args.b0
            tau == FSqrt(calc.args.tsq)
            gamma == tau + FMul(h.n_f, beta)
            r == calc.res[1]
        IN /\ tau < beta => r = Res("NoSoln", 0, 0, 0)
           /\ (tau >= beta /\ gamma <= 0) => r = Res("NoEffect", 0, 0, 0)
           /\ (tau >= beta /\ gamma > 0) =>
                /\ r.status = "Success"
                /\ tau + beta > 0 /\ tau > 0
                /\ r.rho = FMul(h.cst0, gamma)
                /\ r.sigma = FDiv(FMul(h.cst2, gamma), tau + beta)
                /\ r.delta = FMul(h.cst1, Fx(1) - FMul(FDiv(beta, tau), FDiv(beta, tau)))
\* a shallow cut (beta < 0) that still bites
C21_Witness ==
    /\ CalcDone /\ calc.op = "calc_dc_q"
    /\ calc.args.b0 < 0
    /\ calc.res[1].status = "Success" /\ calc.res[1].rho > 0

(* --------------------------- the fall-back ---------------------------- *)
\* the outer hyperplane of the pair lies outside the ellipsoid
OuterMisses ==
    /\ calc.args.b0 <= calc.args.b1 /\ calc.args.b1 > 0
    /\ calc.args.tsq < FMul(calc.args.b1, calc.args.b1)
\* C22 as stated: for beta0 <= beta1, beta1 > 0 and tsq < beta1^2,
\* calc_ll(beta0, beta1, tsq) returns exactly calc_dc(beta0, tsq) and
\* calc_ll_q(beta0, beta1, tsq) exactly calc_dc_q(beta0, tsq), for every such
\* beta0, negative ones included, and neither raises.
C22_AsStated ==
    /\ (CalcDone /\ calc.op = "calc_ll" /\ OuterMisses) =>
          /\ calc.res[1].status \in Statuses
          /\ calc.res[1] = calc_dc(Helper(calc.args), calc.args.b0, calc.args.tsq)
    /\ (CalcDone /\ calc.op = "calc_ll_q" /\ OuterMisses) =>
          /\ calc.res[1].status \in Statuses
          /\ calc.res[1] = calc_dc_q(Helper(calc.args), calc.args.b0, calc.args.tsq)

(* ----------------------- the ellipsoid stays one ---------------------- *)
\* the last update was update_dc with a single beta > 0
DeepCutDone ==
    /\ TwinDone /\ Twin.kind = "dc"
    /\ Twin.cut[1].beta.scalar /\ Twin.cut[1].beta.v[1] > 0
\* C23 as stated: whenever calc_dc(beta, tsq) returns Success with beta > 0,
\* 0 < delta < n^2/(n^2 - 1) and sigma < 1, so after Success updates that
\* start from kappa > 0 the kappa of the ellipsoid stays strictly positive
\* and its shape positive definite (here: a positive diagonal).
C23_AsStated ==
    (DeepCutDone /\ Twin.ell[FALSE].status = "Success") =>
        /\ Dispatched(Twin.ell[FALSE]).delta > 0
        /\ Dispatched(Twin.ell[FALSE]).delta < Twin.ell[FALSE].space.helper.cst1
        /\ Dispatched(Twin.ell[FALSE]).sigma < Fx(1)
        /\ Twin.ell[FALSE].space.kappa > 0
        /\ \A i \in 1..Len(Twin.ell[FALSE].space.mq) : Twin.ell[FALSE].space.mq[i][i] > 0

(* -------------------------------- ell1d ------------------------------- *)
\* the built-in abs
abs(x) == IF x < 0 THEN -x ELSE x

\* ell1d.__init__: the interval (l, u) is kept as radius and center
ell1d(interval) ==
    LET l == interval[1]
        u == interval[2]
        rd == FDiv(u - l, Fx(2))
    IN  [rd |-> rd, xc |-> l + rd]

ell1d_update_KeepOnZero(s, cut) ==
    LET grad == cut[1]
        beta == cut[2]
        tau == abs(FMul(s.rd, grad))
        tsq == FMul(tau, tau)
        bound == s.xc - FDiv(beta, grad)
        upper1 == IF grad > 0 THEN bound ELSE s.xc + s.rd
        lower1 == IF grad > 0 THEN s.xc - s.rd ELSE bound
        rd1 == FDiv(upper1 - lower1, Fx(2))
    IN  IF beta = 0 THEN <<s, <<"Success", tsq>>>>
        ELSE IF beta > tau THEN <<s, <<"NoSoln", tsq>>>>
        ELSE IF beta < -tau THEN <<s, <<"NoEffect", tsq>>>>
        ELSE <<[rd |-> rd1, xc |-> lower1 + rd1], <<"Success", tsq>>>>
\* ell1d.update: <<the object afterwards, the pair (status, tsq) returned>>
ell1d_update(s, cut) ==
    LET grad == cut[1]
        beta == cut[2]
        tau == abs(FMul(s.rd, grad))
        tsq == FMul(tau, tau)
        half == FDiv(s.rd, Fx(2))
        bound == s.xc - FDiv(beta, grad)
        upper1 == IF grad > 0 THEN bound ELSE s.xc + s.rd
        lower1 == IF grad > 0 THEN s.xc - s.rd ELSE bound
        rd1 == FDiv(upper1 - lower1, Fx(2))
    IN  IF beta = 0
        THEN <<[rd |-> half, xc |-> s.xc + (IF grad > 0 THEN -half ELSE half)],
               <<"Success", tsq>>>>
        ELSE IF beta > tau THEN <<s, <<"NoSoln", tsq>>>>
        ELSE IF beta < -tau THEN <<s, <<"NoEffect", tsq>>>>
        ELSE <<[rd |-> rd1, xc |-> lower1 + rd1], <<"Success", tsq>>>>

(* -------------------------- ell1d given cuts -------------------------- *)
\* the intervals (l, u), l <= u, an ell1d is made of
Segments ==
    {<<0, Fx(2)>>, <<-Fx(1), Fx(1) + Fx(1) \div 2>>, <<Fx(1), Fx(2)>>,
     <<Fx(1), Fx(1)>>, <<-Fx(3), -Fx(1) \div 2>>}
\* the gradients of the cuts; 0 is the one the source leaves as a TODO
Grads1d == {Fx(1), -Fx(1), Fx(3), -Fx(3), Fx(1) \div 3, -(Fx(1) \div 3), 0}
\* the betas of the cuts for an ell1d with |rd * grad| = tau: the limits of
\* the three cases, and values on either side of them
Betas1d(tau) ==
    {0, tau, -tau, tau + 1, -tau - 1, tau \div 2, -(tau \div 3), Fx(1) \div 4, -(Fx(1) \div 4)}
Cuts1d(s) ==
    {<<g, b>> : g \in Grads1d, b \in UNION {Betas1d(abs(FMul(s.rd, h))) : h \in Grads1d}}

SegInit ==
    /\ DriversIdle
    /\ calc = None
    /\ twin = None
    /\ \E i \in Segments :
         seg = Some([space |-> ell1d(i), count |-> 0, before |-> ell1d(i),
                     cut |-> None, ret |-> None])

\* update is called with a cut
call_update ==
    /\ seg # None
    /\ seg[1].count < MaxUpdates
    /\ \E cut \in Cuts1d(seg[1].space) :
         seg' = Some([space |-> ell1d_update(seg[1].space, cut)[1],
                      count |-> seg[1].count + 1,
                      before |-> seg[1].space,
                      cut |-> Some(cut),
                      ret |-> Some(ell1d_update(seg[1].space, cut)[2])])
    /\ UNCHANGED <<drivervars, calc, twin>>

SegNext ==
    \/ call_update

SegSpec == SegInit /\ [][SegNext]_vars

(* -------------------------- ell1d properties -------------------------- *)
\* the last call of update: the ell1d before and after, the cut, the result
SegDone == seg # None /\ seg[1].count > 0
Seg == seg[1]
SegGrad == Seg.cut[1][1]
SegBeta == Seg.cut[1][2]
SegTau == abs(FMul(Seg.before.rd, SegGrad))
SegStatus == Seg.ret[1][1]
Lo(s) == s.xc - s.rd
Hi(s) == s.xc + s.rd

\* C24, the cases: with tau = |rd * g|, update returns NoSoln when beta > tau
\* and NoEffect when beta < -tau, and leaves xc and rd as they were in both;
\* beta = 0 halves rd and moves xc by the new rd, down when g > 0 and up
\* otherwise; every other cut returns Success
C24_Cases ==
    SegDone =>
        /\ SegBeta > SegTau => SegStatus = "NoSoln" /\ Seg.space = Seg.before
        /\ SegBeta < -SegTau => SegStatus = "NoEffect" /\ Seg.space = Seg.before
        /\ SegBeta = 0 =>
             /\ SegStatus = "Success"
             /\ Seg.space.rd = FDiv(Seg.before.rd, Fx(2))
             /\ Seg.space.xc = Seg.before.xc
                                 + (IF SegGrad > 0 THEN -Seg.space.rd ELSE Seg.space.rd)
        /\ (SegBeta <= SegTau /\ SegBeta >= -SegTau) => SegStatus = "Success"
        /\ Seg.ret[1][2] = FMul(SegTau, SegTau)

\* C24 as stated, the Success case: the new interval [xc - rd, xc + rd] lies
\* within the old one, its radius is not negative, and a cut with beta # 0
\* keeps the old lower end when g > 0 and the old upper end when g < 0
C24_AsStated ==
    /\ C24_Cases
    /\ ((SegDone /\ SegStatus = "Success") =>
          /\ Lo(Seg.before) <= Lo(Seg.space)
          /\ Hi(Seg.space) <= Hi(Seg.before)
          /\ Seg.space.rd >= 0
          /\ (SegBeta # 0 /\ SegGrad > 0) => Lo(Seg.space) = Lo(Seg.before)
          /\ (SegBeta # 0 /\ SegGrad < 0) => Hi(Seg.space) = Hi(Seg.before))

\* the end of the interval that the cut of the last call moved
SegBound == Seg.before.xc - FDiv(SegBeta, SegGrad)
\* C24 amended: the cases are as stated, and after every Success the new
\* interval lies within the old one, its radius is not negative, and the
\* old lower end (g > 0) or upper end (g < 0) is kept, all up to the
\* rounding of rd * g, beta / g and the halving; the other end is
\* xc - beta/g up to that rounding
C24_UpToRounding ==
    /\ C24_Cases
    /\ ((SegDone /\ SegStatus = "Success") =>
          /\ Lo(Seg.before) - Eps <= Lo(Seg.space)
          /\ Hi(Seg.space) <= Hi(Seg.before) + Eps
          /\ Seg.space.rd >= -Eps
          /\ (SegBeta # 0 /\ SegGrad > 0) =>
                Near(Lo(Seg.space), Lo(Seg.before)) /\ Near(Hi(Seg.space), SegBound)
          /\ (SegBeta # 0 /\ SegGrad < 0) =>
                Near(Hi(Seg.space), Hi(Seg.before)) /\ Near(Lo(Seg.space), SegBound))
C24_Witness ==
    /\ SegDone /\ Seg.count = 2
    /\ SegStatus = "Success" /\ SegBeta > 0 /\ SegGrad < 0
    /\ Lo(Seg.space) > Lo(Seg.before) + Eps
    /\ Seg.space.rd > 0

(* ----------------------- who holds the center ------------------------- *)
\* C25 as stated: no update changes a vector the caller holds. The array
\* at address 1 is the one the caller passed to the constructor as xc, and
\* the one xc() hands to the oracle in the first pass of a driver: it keeps
\* the entries it had at construction
C25_AsStated == heap[1] = Xinit

(* ------------------------ bsearch makes progress ----------------------- *)
\* the interval after the k-th probe of bsearch
AfterProbe(k) == IF k < Len(bslog) THEN [lower |-> bslog[k + 1].lower, upper |-> bslog[k + 1].upper]
                 ELSE [lower |-> lower, upper |-> upper]
\* C26 as stated: every pass of bsearch that probes leaves lower <= upper
\* and upper - lower strictly smaller than it found them, for float and
\* for integer bounds
C26_AsStated ==
    (driver = "bsearch" /\ pc # "probe") =>
        \A k \in 1..Len(bslog) :
            /\ AfterProbe(k).lower.v <= AfterProbe(k).upper.v
            /\ AfterProbe(k).upper.v - AfterProbe(k).lower.v
                 < bslog[k].upper.v - bslog[k].lower.v

(* --------------------- what the adaptor holds ------------------------- *)
\* the probes of bsearch so far that were answered True
Hits == {i \in 1..Len(bslog) : bslog[i].ans}
\* BSearchAdaptor.x_best, by value
AdaptorXBest == heap[space.xc]
\* C27: in a bsearch over a BSearchAdaptor, at every point of the search and
\* at its return: while no probe has been answered True, upper is the upper
\* bound given and the adaptor's x_best is the center given; afterwards
\* upper is the t of the last probe answered True and x_best is the
\* feasible point that probe found
C27_BestOfLastHit ==
    (driver = "bsearch" /\ adaptor.used) =>
        /\ IF Hits = {}
           THEN upper = Upper0 /\ AdaptorXBest = Xinit
           ELSE /\ upper = bslog[SetMax(Hits)].tea
                /\ Some(AdaptorXBest) = bslog[SetMax(Hits)].x_feas
        /\ Returned => ret[1].x = upper
\* a search that returned after a probe answered True at a point other than
\* the center given, and a later probe answered False whose working copy
\* had moved
C27_Witness ==
    /\ driver = "bsearch" /\ adaptor.used /\ Returned
    /\ Hits # {} /\ SetMax(Hits) < Len(bslog)
    /\ AdaptorXBest # Xinit
    /\ bslog[Len(bslog)].work.xc # AdaptorXBest
    /\ ret[1].x # Upper0
====
